---------------------------- MODULE Spec2Model ----------------------------
(***************************************************************************)
(* OpenFlite: a bridge between cockpit hardware (MobiFlight boards on a    *)
(* serial line) and a flight simulator.  The module models                 *)
(*   - the mapping engine        (openflite-core/src/mapping.rs),          *)
(*   - the simulator connectors  (openflite-connect/src/{xplane,msfs,      *)
(*                                dummy}.rs),                              *)
(*   - the orchestrator          (openflite-core/src/lib.rs),              *)
(* each under a specification of its own over the shared variables.        *)
(***************************************************************************)
EXTENDS Integers, Sequences, FiniteSets, TLC

VARIABLES
    \* harness of MappingEngine::process_outputs / process_inputs
    eng_project, eng_data, eng_resp, eng_pc, eng_hw, eng_sim,
    \* harness of MappingEngine::apply_comparison
    cmp_val, cmp_comp, cmp_pc, cmp_out,
    \* harness of the simulator connectors
    client, inbox, bridge, last, max_index, refreshed, fresh,
    \* the orchestrator (Core) and its loop
    devices, sim_client, mapping_engine, injected_responses, locks,
    pc, hardware_responses, hardware_actions, step, event_rx,
    \* harness of the wire protocol
    pr_cmd, pr_line, pr_pc, pr_wire, pr_resp, pr_events, pr_dev,
    \* the threads of the orchestrator and the locks they take
    th_at, th_owner, th_poisoned, th_client, th_queue, th_local, th_actions, th_count,
    th_seen

engVars == <<eng_project, eng_data, eng_resp, eng_pc, eng_hw, eng_sim>>
cmpVars == <<cmp_val, cmp_comp, cmp_pc, cmp_out>>
connVars == <<client, inbox, bridge, last, max_index, refreshed, fresh>>
coreVars == <<devices, sim_client, mapping_engine, injected_responses, locks,
              pc, hardware_responses, hardware_actions, step, event_rx>>
protoVars == <<pr_cmd, pr_line, pr_pc, pr_wire, pr_resp, pr_events, pr_dev>>
threadVars == <<th_at, th_owner, th_poisoned, th_client, th_queue, th_local,
                th_actions, th_count, th_seen>>
vars == <<engVars, cmpVars, connVars, coreVars, protoVars, threadVars>>
notConnVars == <<engVars, cmpVars, coreVars, protoVars, threadVars>>
notCoreVars == <<engVars, cmpVars, connVars, protoVars, threadVars>>
notProtoVars == <<engVars, cmpVars, connVars, coreVars, threadVars>>
notThreadVars == <<engVars, cmpVars, connVars, coreVars, protoVars>>

(***************************************************************************)
(* Option<T>: None is the empty sequence, Some(x) the one-element sequence *)
(***************************************************************************)
None == <<>>
Some(x) == <<x>>
IsSome(o) == o # <<>>
Unwrap(o) == o[1]
UnwrapOr(o, d) == IF o # <<>> THEN o[1] ELSE d

(***************************************************************************)
(* f64 values.  A value is the pair <<w, t>> standing for                  *)
(*      w + t * 2^-53        (2^-53 is half of f64::EPSILON),              *)
(* w an integer and t a small integer.  Every such value with w = 0 is a   *)
(* double, and so is every <<w, 0>>; the sets of values used below hold    *)
(* only those.  Differences of two of them are exact in f64.               *)
(***************************************************************************)
Num(w, t) == <<w, t>>
Whole(w) == <<w, 0>>
Abs(i) == IF i < 0 THEN -i ELSE i
Sign(i) == IF i < 0 THEN -1 ELSE IF i > 0 THEN 1 ELSE 0
NumLt(a, b) == a[1] < b[1] \/ (a[1] = b[1] /\ a[2] < b[2])
NumGt(a, b) == NumLt(b, a)
NumLe(a, b) == a = b \/ NumLt(a, b)
NumGe(a, b) == NumLe(b, a)

\* f64::EPSILON = 2^-52, in units of 2^-53
EPSILON == 2
\* (a - b).abs() < f64::EPSILON and (a - b).abs() > f64::EPSILON
AbsDiffBelowEps(a, b) == a[1] = b[1] /\ Abs(a[2] - b[2]) < EPSILON
AbsDiffAboveEps(a, b) == a[1] # b[1] \/ Abs(a[2] - b[2]) > EPSILON

\* str::parse::<f64>() on the literals the model uses; any other string
\* fails to parse
ParseF64(s) ==
    CASE s = "0" -> Some(Whole(0))
      [] s = "1" -> Some(Whole(1))
      [] s = "5" -> Some(Whole(5))
      [] s = "800" -> Some(Whole(800))
      [] s = "1000" -> Some(Whole(1000))
      [] s = "1200" -> Some(Whole(1200))
      [] s = "1.1102230246251565e-16" -> Some(Num(0, 1))
      [] s = "2.220446049250313e-16" -> Some(Num(0, 2))
      [] s = "3.3306690738754696e-16" -> Some(Num(0, 3))
      [] OTHER -> None

\* str::parse::<u8>()
ParseU8(s) ==
    CASE s = "0" -> Some(0)
      [] s = "1" -> Some(1)
      [] s = "2" -> Some(2)
      [] s = "13" -> Some(13)
      [] OTHER -> None

\* `x as u8` of an f64: truncation toward zero, saturating at 0 and 255
TruncF64(n) ==
    IF n[1] > 0 /\ n[2] < 0 THEN n[1] - 1
    ELSE IF n[1] < 0 /\ n[2] > 0 THEN n[1] + 1
    ELSE n[1]
AsU8(n) ==
    LET i == TruncF64(n)
    IN  IF i < 0 THEN 0 ELSE IF i > 255 THEN 255 ELSE i

\* `x as f32` of an f64, given back as the f64 of that f32: the nearest value
\* with 24 significant binary digits, a tie to the even one.  Ulp32(m) is
\* the distance between two such values at the whole number m >= 1.
RECURSIVE Ulp32(_)
Ulp32(m) == IF m < 16777216 THEN 1 ELSE 2 * Ulp32(m \div 2)
\* m a whole number, above: whether the value lies above m (1), on it (0) or
\* below it (-1), by less than one; u the distance Ulp32(m)
RoundTo(m, above, u) ==
    IF \/ 2 * (m % u) > u
       \/ 2 * (m % u) = u /\ (above > 0 \/ (above = 0 /\ (m \div u) % 2 = 1))
    THEN (m \div u + 1) * u
    ELSE (m \div u) * u
AsF32(n) ==
    IF n[1] = 0 THEN n
    ELSE IF n[1] > 0 THEN <<RoundTo(n[1], Sign(n[2]), Ulp32(n[1])), 0>>
    ELSE <<-RoundTo(-n[1], Sign(-n[2]), Ulp32(-n[1])), 0>>

\* format!("{:.0}", x): the sign and the digits of x rounded to an integer
\* (the fraction t * 2^-53 is below one half, so the digits are those of w)
Format0(n) ==
    [sign |-> IF NumLt(n, Whole(0)) THEN "-" ELSE "", digits |-> Abs(n[1])]

(***************************************************************************)
(* Mapping engine (mapping.rs)                                             *)
(***************************************************************************)

\* mutant: ">" written as ">="
condition_met_ge_for_gt(val, comp) ==
    LET target == UnwrapOr(ParseF64(comp.value), Whole(0))
    IN  CASE comp.operand = ">" -> NumGe(val, target)
          [] comp.operand = "<" -> NumLt(val, target)
          [] comp.operand \in {"==", "="} -> AbsDiffBelowEps(val, target)
          [] comp.operand = ">=" -> NumGe(val, target)
          [] comp.operand = "<=" -> NumLe(val, target)
          [] comp.operand = "!=" -> AbsDiffAboveEps(val, target)
          [] OTHER -> FALSE

\* fn apply_comparison(&self, val: f64, comp: &Comparison) -> f64: the
\* `let condition_met = match comp.operand.as_str() { ... }` of lines 120-129
condition_met(val, comp) ==
    LET target == UnwrapOr(ParseF64(comp.value), Whole(0))
    IN  CASE comp.operand = ">" -> NumGt(val, target)
          [] comp.operand = "<" -> NumLt(val, target)
          [] comp.operand \in {"==", "="} -> AbsDiffBelowEps(val, target)
          [] comp.operand = ">=" -> NumGe(val, target)
          [] comp.operand = "<=" -> NumLe(val, target)
          [] comp.operand = "!=" -> AbsDiffAboveEps(val, target)
          [] OTHER -> FALSE

\* mutant: an if-value that does not parse counts as 0
apply_comparison_if_default_zero(val, comp) ==
    IF condition_met(val, comp)
    THEN UnwrapOr(ParseF64(comp.if_value), Whole(0))
    ELSE UnwrapOr(ParseF64(comp.else_value), Whole(0))

apply_comparison(val, comp) ==
    IF condition_met(val, comp)
    THEN UnwrapOr(ParseF64(comp.if_value), Whole(1))
    ELSE UnwrapOr(ParseF64(comp.else_value), Whole(0))

\* the effective value of one output rule: lines 25-30 of process_outputs
final_val(settings, val) ==
    IF IsSome(settings.comparison) /\ Unwrap(settings.comparison).active
    THEN apply_comparison(val, Unwrap(settings.comparison))
    ELSE val

\* the match on display.display_type: lines 32-57
display_action(config, display, fv) ==
    CASE display.display_type = "Pin" ->
            <<[kind |-> "SetPin", serial |-> display.serial,
               pin |-> UnwrapOr(ParseU8(display.pin), 0), value |-> AsU8(fv)]>>
      [] display.display_type = "7Segment" ->
            <<[kind |-> "Set7Segment", serial |-> display.serial,
               module |-> 0, index |-> 0, value |-> Format0(fv)]>>
      [] display.display_type = "LCD" ->
            <<[kind |-> "SetLCD", serial |-> display.serial,
               display_id |-> 0, line |-> 0,
               text |-> [label |-> config.description, number |-> Format0(fv)]]>>
      [] OTHER -> <<>>

\* mutant: the `if !config.active { continue; }` of process_outputs is missing
output_rule_actions_no_active_check(config, data) ==
    IF IsSome(config.settings.source) /\ IsSome(config.settings.display)
    THEN LET source == Unwrap(config.settings.source)
             display == Unwrap(config.settings.display)
         IN  IF source.name \in DOMAIN data
             THEN display_action(config, display, data[source.name])
             ELSE <<>>
    ELSE <<>>

\* the body of the loop of process_outputs for one rule: 0 or 1 action
output_rule_actions(config, data) ==
    IF ~config.active THEN <<>>
    ELSE IF IsSome(config.settings.source) /\ IsSome(config.settings.display)
    THEN LET source == Unwrap(config.settings.source)
             display == Unwrap(config.settings.display)
         IN  IF source.name \in DOMAIN data
             THEN display_action(config, display,
                                 final_val(config.settings, data[source.name]))
             ELSE <<>>
    ELSE <<>>

\* mutant: the actions of later rules are put ahead of those of earlier rules
RECURSIVE outputs_loop_reversed(_, _)
outputs_loop_reversed(configs, data) ==
    IF configs = <<>> THEN <<>>
    ELSE outputs_loop_reversed(Tail(configs), data)
            \o output_rule_actions(Head(configs), data)

RECURSIVE outputs_loop(_, _)
outputs_loop(configs, data) ==
    IF configs = <<>> THEN <<>>
    ELSE output_rule_actions(Head(configs), data) \o outputs_loop(Tail(configs), data)

\* pub fn process_outputs(&self, data: &HashMap<String, f64>) -> Vec<HardwareAction>
process_outputs(project, data) == outputs_loop(project.outputs, data)

\* mutant: a variable name takes precedence over a command name
create_sim_action_dataref_first(action) ==
    IF IsSome(action.dataref)
    THEN [kind |-> "WriteDataref", dref |-> Unwrap(action.dataref),
          val |-> IF IsSome(action.value)
                  THEN UnwrapOr(ParseF64(Unwrap(action.value)), Whole(0))
                  ELSE Whole(0)]
    ELSE IF IsSome(action.command)
    THEN [kind |-> "Command", cmd |-> Unwrap(action.command)]
    ELSE [kind |-> "None"]

\* fn create_sim_action(&self, action: &Action) -> SimAction
create_sim_action(action) ==
    IF IsSome(action.command)
    THEN [kind |-> "Command", cmd |-> Unwrap(action.command)]
    ELSE IF IsSome(action.dataref)
    THEN [kind |-> "WriteDataref", dref |-> Unwrap(action.dataref),
          val |-> IF IsSome(action.value)
                  THEN UnwrapOr(ParseF64(Unwrap(action.value)), Whole(0))
                  ELSE Whole(0)]
    ELSE [kind |-> "None"]

\* mutant: on-release is selected for the value "0" only
button_actions_release_on_zero(settings, value) ==
    IF IsSome(settings.button)
    THEN LET button == Unwrap(settings.button)
             action == IF value = "0" THEN button.on_release ELSE button.on_press
         IN  IF IsSome(action) THEN <<create_sim_action(Unwrap(action))>> ELSE <<>>
    ELSE <<>>

\* lines 75-85: the button part of one matching rule
button_actions(settings, value) ==
    IF IsSome(settings.button)
    THEN LET button == Unwrap(settings.button)
             action == IF value = "1" THEN button.on_press ELSE button.on_release
         IN  IF IsSome(action) THEN <<create_sim_action(Unwrap(action))>> ELSE <<>>
    ELSE <<>>

\* lines 87-97: the encoder part of one matching rule
encoder_actions(settings, value) ==
    IF IsSome(settings.encoder)
    THEN LET encoder == Unwrap(settings.encoder)
             action == IF value = "0" THEN encoder.on_left ELSE encoder.on_right
         IN  IF IsSome(action) THEN <<create_sim_action(Unwrap(action))>> ELSE <<>>
    ELSE <<>>

\* the body of the loop of process_inputs for one rule
input_rule_actions(config, name, value) ==
    IF ~config.active \/ config.description # name THEN <<>>
    ELSE button_actions(config.settings, value) \o encoder_actions(config.settings, value)

\* mutant: the actions of later rules are put ahead of those of earlier rules
RECURSIVE inputs_loop_reversed(_, _, _)
inputs_loop_reversed(configs, name, value) ==
    IF configs = <<>> THEN <<>>
    ELSE inputs_loop_reversed(Tail(configs), name, value)
            \o input_rule_actions(Head(configs), name, value)

RECURSIVE inputs_loop(_, _, _)
inputs_loop(configs, name, value) ==
    IF configs = <<>> THEN <<>>
    ELSE input_rule_actions(Head(configs), name, value)
            \o inputs_loop(Tail(configs), name, value)

\* mutant: an identity response is taken for a press of the input of its name
process_inputs_info_too(project, resp) ==
    IF resp.kind = "InputEvent"
    THEN inputs_loop(project.inputs, resp.name, resp.value)
    ELSE IF resp.kind = "Info"
    THEN inputs_loop(project.inputs, resp.name, "1")
    ELSE <<>>

\* pub fn process_inputs(&self, resp: &Response) -> Vec<SimAction>
process_inputs(project, resp) ==
    IF resp.kind = "InputEvent"
    THEN inputs_loop(project.inputs, resp.name, resp.value)
    ELSE <<>>

(***************************************************************************)
(* Inputs of the mapping-engine harness: configurations, snapshots, events *)
(***************************************************************************)
\* the most rules (output rules plus input rules) of a configuration
MaxRules == 2

Source(name) == [name |-> name]
Comparison(active, value, operand, if_value, else_value) ==
    [active |-> active, value |-> value, operand |-> operand,
     if_value |-> if_value, else_value |-> else_value]
Display(display_type, serial, pin) ==
    [display_type |-> display_type, serial |-> serial, pin |-> pin]
ConfigSettings(source, comparison, display) ==
    [source |-> source, comparison |-> comparison, display |-> display]
OutputConfig(active, description, settings) ==
    [active |-> active, description |-> description, settings |-> settings]

Action(command, dataref, value) ==
    [command |-> command, dataref |-> dataref, value |-> value]
ButtonAction(on_press, on_release) ==
    [on_press |-> on_press, on_release |-> on_release]
EncoderAction(on_left, on_right) ==
    [on_left |-> on_left, on_right |-> on_right]
InputSettings(button, encoder) == [button |-> button, encoder |-> encoder]
InputConfig(active, description, settings) ==
    [active |-> active, description |-> description, settings |-> settings]

MobiFlightProject(outputs, inputs) == [outputs |-> outputs, inputs |-> inputs]

GreaterThan1000 == Comparison(TRUE, "1000", ">", "1", "0")
OutputSettingsUniverse ==
    { ConfigSettings(Some(Source("alt")), None, Some(Display("Pin", "SN1", "13"))),
      ConfigSettings(Some(Source("alt")), Some(GreaterThan1000),
                     Some(Display("Pin", "SN1", "13"))),
      ConfigSettings(Some(Source("alt")),
                     Some(Comparison(FALSE, "1000", ">", "1", "0")),
                     Some(Display("7Segment", "SN1", "0"))),
      ConfigSettings(Some(Source("gear")), None, Some(Display("LCD", "SN2", "abc"))),
      ConfigSettings(Some(Source("alt")), None, Some(Display("Servo", "SN1", "2"))),
      ConfigSettings(None, None, Some(Display("Pin", "SN2", "2"))),
      ConfigSettings(Some(Source("gear")), Some(GreaterThan1000), None) }
OutputConfigUniverse ==
    { OutputConfig(a, "Out", s) : a \in BOOLEAN, s \in OutputSettingsUniverse }

GearCommand == Action(Some("gear_unsafe"), None, None)
InputRuleUniverse ==
    { <<"GearToggle", InputSettings(Some(ButtonAction(Some(GearCommand), None)), None)>>,
      <<"GearToggle",
        InputSettings(Some(ButtonAction(Some(Action(None, Some("gear_dref"), Some("1"))),
                                        Some(Action(None, Some("gear_dref"), Some("abc"))))),
                      None)>>,
      <<"Knob",
        InputSettings(None, Some(EncoderAction(Some(Action(Some("hdg_left"), None, None)),
                                               Some(Action(Some("hdg_right"), None, None)))))>>,
      <<"GearToggle",
        InputSettings(Some(ButtonAction(Some(Action(Some("both_cmd"), Some("both_dref"), Some("5"))),
                                        Some(Action(None, None, Some("1"))))),
                      Some(EncoderAction(None, Some(Action(None, Some("enc_dref"), None)))))>>,
      <<"Knob", InputSettings(None, None)>> }
InputConfigUniverse ==
    { InputConfig(a, r[1], r[2]) : a \in BOOLEAN, r \in InputRuleUniverse }

SeqsUpTo(S, n) == UNION { [1..k -> S] : k \in 0..n }
Projects ==
    UNION { { MobiFlightProject(o, i) : o \in [1..k -> OutputConfigUniverse],
                                         i \in SeqsUpTo(InputConfigUniverse, MaxRules - k) }
            : k \in 0..MaxRules }

\* HashMap<String, f64>: a function from the names present to their values
Snapshots ==
    { <<>>, [n \in {"alt"} |-> Whole(1200)], [n \in {"alt"} |-> Whole(800)],
      [n \in {"alt", "gear"} |-> IF n = "alt" THEN Whole(1000) ELSE Whole(1)] }

\* protocol.rs, enum Response
InfoResponse(name, board_type, serial, version) ==
    [kind |-> "Info", name |-> name, board_type |-> board_type,
     serial |-> serial, version |-> version]
InputEvent(name, value) == [kind |-> "InputEvent", name |-> name, value |-> value]
UnknownResponse(id, args) == [kind |-> "Unknown", id |-> id, args |-> args]
DataResponse(args) == [kind |-> "Data", args |-> args]
Responses ==
    { InputEvent("GearToggle", "1"), InputEvent("GearToggle", "0"),
      InputEvent("GearToggle", "2"),
      InputEvent("Knob", "0"), InputEvent("Knob", "2"), InputEvent("Flaps", "1"),
      InfoResponse("GearToggle", "Mega", "SN1", "1"),
      UnknownResponse(3, <<"GearToggle", "1">>), DataResponse(<<"GearToggle", "1">>) }

(***************************************************************************)
(* The mapping-engine harness: a configuration, a snapshot and an event    *)
(* are drawn, then process_outputs and process_inputs are called on them.  *)
(***************************************************************************)
EngInit ==
    /\ eng_project \in Projects
    /\ eng_data \in Snapshots
    /\ eng_resp \in Responses
    /\ eng_pc = "ready"
    /\ eng_hw = <<>>
    /\ eng_sim = <<>>

EngIdle ==
    /\ eng_project = MobiFlightProject(<<>>, <<>>)
    /\ eng_data = <<>>
    /\ eng_resp = DataResponse(<<>>)
    /\ eng_pc = "idle"
    /\ eng_hw = <<>>
    /\ eng_sim = <<>>

CallProcessOutputs ==
    /\ eng_pc = "ready"
    /\ eng_hw' = process_outputs(eng_project, eng_data)
    /\ eng_pc' = "outputs"
    /\ UNCHANGED <<eng_project, eng_data, eng_resp, eng_sim>>

CallProcessInputs ==
    /\ eng_pc = "outputs"
    /\ eng_sim' = process_inputs(eng_project, eng_resp)
    /\ eng_pc' = "inputs"
    /\ UNCHANGED <<eng_project, eng_data, eng_resp, eng_hw>>

(***************************************************************************)
(* The comparison harness: a value and a comparison are drawn, then        *)
(* apply_comparison is called on them.                                     *)
(***************************************************************************)
\* the largest multiple of 2^-53 among the values near zero
MaxTiny == 3
Operands == {">", "<", "=", "==", ">=", "<=", "!=", "~"}
ThresholdLiterals ==
    {"0", "1000", "1.1102230246251565e-16", "2.220446049250313e-16", "abc"}
BranchLiterals == {"1", "5", "0", "abc"}
CmpValues ==
    { Whole(w) : w \in {-1, 1, 800, 1000, 1200} }
        \cup { Num(0, t) : t \in -MaxTiny..MaxTiny }
Comparisons ==
    { Comparison(TRUE, v, op, i, e) :
        v \in ThresholdLiterals, op \in Operands,
        i \in BranchLiterals, e \in BranchLiterals }

CmpInit ==
    /\ cmp_val \in CmpValues
    /\ cmp_comp \in Comparisons
    /\ cmp_pc = "ready"
    /\ cmp_out = Whole(0)

CmpIdle ==
    /\ cmp_val = Whole(0)
    /\ cmp_comp = GreaterThan1000
    /\ cmp_pc = "idle"
    /\ cmp_out = Whole(0)

CallApplyComparison ==
    /\ cmp_pc = "ready"
    /\ cmp_out' = apply_comparison(cmp_val, cmp_comp)
    /\ cmp_pc' = "done"
    /\ UNCHANGED <<cmp_val, cmp_comp>>

(***************************************************************************)
(* HashMap<String, _>: a function from the keys present to their values    *)
(***************************************************************************)
EmptyMap == <<>>
MapInsert(m, k, v) == [x \in (DOMAIN m) \cup {k} |-> IF x = k THEN v ELSE m[x]]
MapLen(m) == Cardinality(DOMAIN m)
Min(a, b) == IF a < b THEN a ELSE b
Max(a, b) == IF a < b THEN b ELSE a

\* what a connector call gives back: the connector after the call, the
\* Result (or a panic), and the messages it put on the wire
Outcome(c, result, sent) == [client |-> c, result |-> result, sent |-> sent]

(***************************************************************************)
(* UDP connector (xplane.rs)                                               *)
(***************************************************************************)
\* XPlaneClient::new; socket: whether the Option<UdpSocket> is Some
XPlaneClient_new ==
    [kind |-> "xplane", socket |-> FALSE, cache |-> EmptyMap, subscriptions |-> EmptyMap]

\* variable.as_bytes().len(); two names stand for names of 400 and 500 bytes
ByteLen(s) ==
    CASE s = "LONG400" -> 400
      [] s = "LONG500" -> 500
      [] OTHER -> Len(s)

\* mutant: the name is recorded before the socket is looked at
xplane_subscribe_insert_first(c, variable, frequency, send_ok) ==
    LET index == MapLen(c.subscriptions) + 1
        c1 == [c EXCEPT !.subscriptions = MapInsert(@, variable, index)]
        len == Min(ByteLen(variable), 400)
        frame == [tag |-> "RREF", frequency |-> frequency, index |-> index,
                  path_len |-> len, bytes |-> 13 + len + 1]
    IN  IF ~c.socket THEN Outcome(c1, "NotConnected", <<>>)
        ELSE IF 13 + len + 1 > 413 THEN Outcome(c1, "Panic", <<>>)
        ELSE IF send_ok THEN Outcome(c1, "Ok", <<frame>>)
        ELSE Outcome(c1, "Err", <<>>)

\* pub fn subscribe(&mut self, variable: &str, frequency: i32) -> Result<()>
\* send_ok: whether socket.send_to succeeds
xplane_subscribe(c, variable, frequency, send_ok) ==
    IF c.socket
    THEN LET index == MapLen(c.subscriptions) + 1
             c1 == [c EXCEPT !.subscriptions = MapInsert(@, variable, index)]
             len == Min(ByteLen(variable), 400)
             frame == [tag |-> "RREF", frequency |-> frequency, index |-> index,
                       path_len |-> len, bytes |-> 13 + len + 1]
         IN  IF 13 + len + 1 > 413
             THEN Outcome(c1, "Panic", <<>>)       \* &buf[..414] of a [u8; 413]
             ELSE IF send_ok THEN Outcome(c1, "Ok", <<frame>>)
             ELSE Outcome(c1, "Err", <<>>)
    ELSE Outcome(c, "NotConnected", <<>>)

\* fn connect: bind_ok is whether UdpSocket::bind and set_nonblocking succeed
xplane_connect(c, bind_ok) ==
    IF bind_ok THEN Outcome([c EXCEPT !.socket = TRUE], "Ok", <<>>)
    ELSE Outcome(c, "Err", <<>>)

\* fn disconnect
xplane_disconnect(c) == Outcome([c EXCEPT !.socket = FALSE], "Ok", <<>>)

\* fn write_variable; the frame carries `value as f32`
xplane_write_variable(c, variable, value, send_ok) ==
    IF c.socket
    THEN LET len == Min(ByteLen(variable), 500)
             frame == [tag |-> "DREF", value |-> AsF32(value), path_len |-> len,
                       bytes |-> 9 + len + 1]
         IN  IF 9 + len + 1 > 509 THEN Outcome(c, "Panic", <<>>)
             ELSE IF send_ok THEN Outcome(c, "Ok", <<frame>>)
             ELSE Outcome(c, "Err", <<>>)
    ELSE Outcome(c, "NotConnected", <<>>)

\* fn execute_command
xplane_execute_command(c, command, send_ok) ==
    IF c.socket
    THEN LET len == Min(ByteLen(command), 500)
             frame == [tag |-> "CMND", path_len |-> len, bytes |-> 5 + len + 1]
         IN  IF 5 + len + 1 > 505 THEN Outcome(c, "Panic", <<>>)
             ELSE IF send_ok THEN Outcome(c, "Ok", <<frame>>)
             ELSE Outcome(c, "Err", <<>>)
    ELSE Outcome(c, "NotConnected", <<>>)

\* An inbound datagram: its first four bytes (tag), its length (len), the
\* 8-byte (index, value) records it carries from offset 5 on, and what
\* `socket.recv_from(&mut buf)` returns for it (amt): buf is [0u8; 4096], so
\* at most 4096 bytes are received and the rest of the datagram is lost.
Datagram(tag, recs, extra) ==
    [tag |-> tag, len |-> 5 + 8 * Len(recs) + extra,
     amt |-> Min(5 + 8 * Len(recs) + extra, 4096), recs |-> recs]
ShortDatagram(tag, len) ==
    [tag |-> tag, len |-> len, amt |-> Min(len, 4096), recs |-> <<>>]

\* self.subscriptions.iter().find(|(_, &v)| v == index): the first entry with
\* the index in the HashMap's iteration order, which is unspecified: any of
\* the names that hold the index
names_of_index(subscriptions, index) ==
    { n \in DOMAIN subscriptions : subscriptions[n] = index }

\* The subscription table is not changed during a poll, so its iteration
\* order is the same for every record of the poll: of the names that hold an
\* index, find returns the same one each time.  An iteration order is given
\* by the entries find can return: one name for each index held.
iteration_orders(subscriptions) ==
    { [n \in D |-> subscriptions[n]] :
        D \in { E \in SUBSET DOMAIN subscriptions :
                  \A n \in DOMAIN subscriptions :
                      Cardinality({ m \in E : subscriptions[m] = subscriptions[n] }) = 1 } }

\* lines 115-132: one record applied to each cache the poll may have built
apply_record(caches, subscriptions, rec) ==
    LET names == names_of_index(subscriptions, rec[1])
    IN  IF names = {} THEN caches
        ELSE { MapInsert(cache, n, rec[2]) : cache \in caches, n \in names }

\* the records from..upto of a datagram applied in order (the run is split
\* in two to keep the evaluation shallow)
RECURSIVE apply_records(_, _, _, _, _)
apply_records(caches, subscriptions, recs, from, upto) ==
    IF from > upto THEN caches
    ELSE IF from = upto THEN apply_record(caches, subscriptions, recs[from])
    ELSE CHOOSE r \in { apply_records(half, subscriptions, recs, (from + upto) \div 2 + 1, upto) :
                           half \in { apply_records(caches, subscriptions, recs, from,
                                                    (from + upto) \div 2) } } : TRUE

\* the record read at offset pos, and the last record that lies whole within
\* the received bytes
RecordAt(pos) == (pos - 5) \div 8 + 1
LastRecord(dgram) == (dgram.amt - 5) \div 8

\* mutant: a record whose index has no name ends the datagram (`break`)
records_loop_break(caches, subscriptions, dgram, pos) ==
    apply_records(caches, subscriptions, dgram.recs, RecordAt(pos),
                  Min(LastRecord(dgram),
                      Cardinality({ i \in RecordAt(pos)..LastRecord(dgram) :
                                      \A j \in RecordAt(pos)..i :
                                          names_of_index(subscriptions, dgram.recs[j][1]) # {} })
                         + RecordAt(pos) - 1))

\* lines 113-134: `let mut pos = 5; while pos + 8 <= amt { ...; pos += 8; }`
records_loop(caches, subscriptions, dgram, pos) ==
    apply_records(caches, subscriptions, dgram.recs, RecordAt(pos), LastRecord(dgram))

\* line 109: `if amt >= 5 && &buf[0..4] == b"RREF"`
datagram_caches(caches, subscriptions, dgram) ==
    IF dgram.amt >= 5 /\ dgram.tag = "RREF"
    THEN records_loop(caches, subscriptions, dgram, 5)
    ELSE caches

\* line 108: `while let Ok((amt, _)) = socket.recv_from(&mut buf)`: every
\* queued datagram in arrival order, until recv_from would block
RECURSIVE recv_loop(_, _, _)
recv_loop(caches, subscriptions, queue) ==
    IF queue = <<>> THEN caches
    ELSE recv_loop(datagram_caches(caches, subscriptions, Head(queue)),
                   subscriptions, Tail(queue))

\* mutant: the cache is rebuilt from the datagrams of this poll alone
xplane_poll_rebuild(c, queue) ==
    IF c.socket
    THEN { Outcome([c EXCEPT !.cache = cache], "Ok", <<>>) :
             cache \in UNION { recv_loop({EmptyMap}, found, queue) :
                                 found \in iteration_orders(c.subscriptions) } }
    ELSE { Outcome(c, "Ok", <<>>) }

\* fn poll: the outcomes it may have, one per cache it may build
xplane_poll(c, queue) ==
    IF c.socket
    THEN { Outcome([c EXCEPT !.cache = cache], "Ok", <<>>) :
             cache \in UNION { recv_loop({c.cache}, found, queue) :
                                 found \in iteration_orders(c.subscriptions) } }
    ELSE { Outcome(c, "Ok", <<>>) }

\* fn get_all_variables
xplane_get_all_variables(c) == c.cache

(***************************************************************************)
(* HTTP bridge connector (msfs.rs).  A request ends in one of:             *)
(*   "success"           a 2xx status and a body that decodes,             *)
(*   "success_bad_body"  a 2xx status and a body that does not decode,     *)
(*   "status_error"      another status,                                   *)
(*   "transport_error"   no response (connection refused, timeout).        *)
(***************************************************************************)
HttpResponses == {"success", "success_bad_body", "status_error", "transport_error"}
IsSuccessStatus(resp) == resp \in {"success", "success_bad_body"}

MSFSClient_new == [kind |-> "msfs", connected |-> FALSE, variables |-> EmptyMap]

\* fn connect
msfs_connect(c, resp) ==
    IF IsSuccessStatus(resp)
    THEN Outcome([c EXCEPT !.connected = TRUE], "Ok", <<[method |-> "GET", path |-> "/status"]>>)
    ELSE Outcome(c, "Err", <<[method |-> "GET", path |-> "/status"]>>)

\* fn disconnect
msfs_disconnect(c) ==
    Outcome([c EXCEPT !.connected = FALSE, !.variables = EmptyMap], "Ok", <<>>)

\* fn write_variable
msfs_write_variable(c, variable, value, resp) ==
    IF ~c.connected THEN Outcome(c, "NotConnected", <<>>)
    ELSE Outcome(c, IF resp = "transport_error" THEN "Err" ELSE "Ok",
                 <<[method |-> "POST", path |-> "/simvar", name |-> variable, value |-> value]>>)

\* fn execute_command
msfs_execute_command(c, command, resp) ==
    IF ~c.connected THEN Outcome(c, "NotConnected", <<>>)
    ELSE Outcome(c, IF resp = "transport_error" THEN "Err" ELSE "Ok",
                 <<[method |-> "POST", path |-> "/command", event |-> command]>>)

\* mutant: a failed request drops the cached snapshot
msfs_poll_clear_on_failure(c, resp, body) ==
    IF ~c.connected THEN Outcome(c, "Ok", <<>>)
    ELSE Outcome([c EXCEPT !.variables = IF resp = "success" THEN body ELSE EmptyMap],
                 "Ok", <<[method |-> "GET", path |-> "/simvars"]>>)

\* mutant: the response is merged into the cached snapshot
msfs_poll_merge(c, resp, body) ==
    IF ~c.connected THEN Outcome(c, "Ok", <<>>)
    ELSE IF resp = "success"
    THEN Outcome([c EXCEPT !.variables =
                      [x \in (DOMAIN c.variables) \cup (DOMAIN body) |->
                          IF x \in DOMAIN body THEN body[x] ELSE c.variables[x]]],
                 "Ok", <<[method |-> "GET", path |-> "/simvars"]>>)
    ELSE Outcome(c, "Ok", <<[method |-> "GET", path |-> "/simvars"]>>)

\* fn poll; body: the variable map the bridge holds
msfs_poll(c, resp, body) ==
    IF ~c.connected THEN Outcome(c, "Ok", <<>>)
    ELSE IF resp = "success"
    THEN Outcome([c EXCEPT !.variables = body], "Ok", <<[method |-> "GET", path |-> "/simvars"]>>)
    ELSE Outcome(c, "Ok", <<[method |-> "GET", path |-> "/simvars"]>>)

\* fn get_all_variables
msfs_get_all_variables(c) == c.variables

(***************************************************************************)
(* Synthetic connector (dummy.rs).  counter is an f64 that is never        *)
(* negative; it is kept as the binary digits, least significant first and  *)
(* without leading zeros, of its value in units of 2^-56 (the last place   *)
(* of 0.1).  An f64 has 53 significant binary digits.                      *)
(***************************************************************************)
Bit(bits, i) == IF i <= Len(bits) THEN bits[i] ELSE 0
\* the carry into digit i of a + b: some lower digit makes one and every
\* digit between passes it on
Carry(a, b, i) ==
    \E j \in 1..(i - 1) :
        /\ Bit(a, j) + Bit(b, j) = 2
        /\ \A m \in (j + 1)..(i - 1) : Bit(a, m) + Bit(b, m) >= 1
\* the digits of a + b
BitsAdd(a, b) ==
    <<>> \o [i \in 1..(Max(Len(a), Len(b)) + (IF Carry(a, b, Max(Len(a), Len(b)) + 1) THEN 1 ELSE 0)) |->
        (Bit(a, i) + Bit(b, i) + (IF Carry(a, b, i) THEN 1 ELSE 0)) % 2]

\* the digits kept (high) and dropped (low) when a sum is rounded to 53
\* digits: to the nearest, a tie to the even one
RoundedUp(low, high) ==
    /\ low[Len(low)] = 1
    /\ (high[1] = 1 \/ \E i \in 1..(Len(low) - 1) : low[i] = 1)
F64Round(bits) ==
    IF Len(bits) <= 53 THEN bits
    ELSE [i \in 1..(Len(bits) - 53) |-> 0]
            \o (IF RoundedUp(SubSeq(bits, 1, Len(bits) - 53),
                             SubSeq(bits, Len(bits) - 52, Len(bits)))
                THEN BitsAdd(SubSeq(bits, Len(bits) - 52, Len(bits)), <<1>>)
                ELSE SubSeq(bits, Len(bits) - 52, Len(bits)))
\* a + b of two f64; the operands and the exact sum are computed once
F64Add(a, b) ==
    CHOOSE r \in { F64Round(sum) : sum \in { BitsAdd(x, y) : x \in {a}, y \in {b} } } : TRUE

\* 0.1_f64 = 0x1999999999999A * 2^-56
Tenth ==
    <<0,1,0,1>> \o <<1,0,0,1>> \o <<1,0,0,1>> \o <<1,0,0,1>> \o <<1,0,0,1>>
                \o <<1,0,0,1>> \o <<1,0,0,1>> \o <<1,0,0,1>> \o <<1,0,0,1>>
                \o <<1,0,0,1>> \o <<1,0,0,1>> \o <<1,0,0,1>> \o <<1,0,0,1>> \o <<1>>

RECURSIVE BitsMod5(_)
BitsMod5(bits) ==
    IF bits = <<>> THEN 0 ELSE (Head(bits) + 2 * BitsMod5(Tail(bits))) % 5
\* x % 20.0 > 10.0 of an f64 (the remainder is exact): with 20.0 = 5 * 2^58
\* units and 10.0 = 2 * 2^58 + 2^57 units, the remainder is
\* (x div 2^58 mod 5) * 2^58 + (x mod 2^58)
Rem20Gt10(bits) ==
    \/ BitsMod5(SubSeq(bits, 59, Len(bits))) >= 3
    \/ /\ BitsMod5(SubSeq(bits, 59, Len(bits))) = 2
       /\ Bit(bits, 58) = 1
       /\ \E i \in 1..57 : bits[i] = 1

DummyClient_new == [kind |-> "dummy", connected |-> FALSE, counter |-> <<>>]

dummy_connect(c) == Outcome([c EXCEPT !.connected = TRUE], "Ok", <<>>)
dummy_disconnect(c) == Outcome([c EXCEPT !.connected = FALSE], "Ok", <<>>)
dummy_write_variable(c, variable, value) == Outcome(c, "Ok", <<>>)
dummy_execute_command(c, command) == Outcome(c, "Ok", <<>>)

\* fn poll: `self.counter += 0.1`
dummy_poll(c) ==
    IF c.connected THEN Outcome([c EXCEPT !.counter = F64Add(@, Tenth)], "Ok", <<>>)
    ELSE Outcome(c, "Ok", <<>>)
\* the counter after n more polls of a connected connector (the polls are
\* split in two runs to keep the evaluation shallow)
RECURSIVE after_polls(_, _)
after_polls(counter, n) ==
    IF n = 0 THEN counter
    ELSE IF n = 1 THEN F64Add(counter, Tenth)
    ELSE CHOOSE r \in { after_polls(half, n - n \div 2) :
                           half \in { after_polls(counter, n \div 2) } } : TRUE
counter_after(n) == after_polls(<<>>, n)

DummyNames ==
    {"sim/flightmodel/position/altitude", "sim/cockpit2/controls/gear_handle_down",
     "sim/flightmodel/engine/ENGN_RPM[0]"}
\* fn get_all_variables; the altitude and the RPM are kept as the
\* expressions of the source over the counter
dummy_get_all_variables(c) ==
    IF c.connected
    THEN [n \in DummyNames |->
            CASE n = "sim/flightmodel/position/altitude" ->
                    [expr |-> "1000.0 + counter", counter |-> c.counter]
              [] n = "sim/cockpit2/controls/gear_handle_down" ->
                    IF Rem20Gt10(c.counter) THEN Whole(1) ELSE Whole(0)
              [] n = "sim/flightmodel/engine/ENGN_RPM[0]" ->
                    [expr |-> "2500.0 + sin(counter) * 100.0", counter |-> c.counter]]
    ELSE EmptyMap

(***************************************************************************)
(* trait SimClient (openflite-connect/src/lib.rs): dispatch on the variant *)
(***************************************************************************)
get_all_variables(c) ==
    CASE c.kind = "xplane" -> xplane_get_all_variables(c)
      [] c.kind = "msfs" -> msfs_get_all_variables(c)
      [] c.kind = "dummy" -> dummy_get_all_variables(c)
      [] c.kind = "other" -> c.data

(***************************************************************************)
(* The connector harness: one connector of one variant, the datagrams      *)
(* queued on its socket (inbox), and the variable map the HTTP bridge      *)
(* holds (bridge).  History variables:                                     *)
(*   last       the last step: the call's name and result                  *)
(*   max_index  the largest subscription index assigned in this session    *)
(*   refreshed  a poll has succeeded since the connector was created       *)
(*   fresh      the bridge holds data this session has not yet received    *)
(***************************************************************************)
\* the most datagrams queued on the socket
MaxInbox == 2
\* the most polls of a connected synthetic connector
MaxCounter == 3

XpNames == {"alt", "gear"}
\* the names a caller passes: the short ones, and names as long as the limits
SubscribeNames == XpNames \cup {"LONG400"}
WriteNames == XpNames \cup {"LONG400", "LONG500"}
CommandNames == {"gear_unsafe", "LONG500"}
XpValues == {Whole(800), Whole(1200)}
\* the values written: 1.0, and 1.0000000000000002, which no f32 holds
WriteValues == {Whole(1), Num(1, 2)}
\* index 9 is one no subscription holds
\* a datagram of 512 records (4101 bytes), longer than the receive buffer:
\* 511 records for index 9 and a last one for index 1
LongDatagram ==
    Datagram("RREF", <<>> \o [i \in 1..512 |-> IF i = 512 THEN <<1, Whole(1200)>>
                                                ELSE <<9, Whole(800)>>], 0)
Datagrams ==
    { LongDatagram,
      Datagram("RREF", <<<<9, Whole(800)>>, <<1, Whole(1200)>>>>, 0),
      Datagram("RREF", <<<<2, Whole(1200)>>, <<2, Whole(800)>>>>, 3),
      Datagram("DATA", <<<<1, Whole(800)>>>>, 0),
      ShortDatagram("RREF", 4) }
BridgeMaps ==
    { EmptyMap, [n \in {"alt"} |-> Whole(800)],
      [n \in {"alt", "gear"} |-> IF n = "alt" THEN Whole(1200) ELSE Whole(1)] }

\* the records of the tagged datagrams of a queue that lie whole within the
\* bytes received, in arrival order
RECURSIVE Received(_)
Received(queue) ==
    IF queue = <<>> THEN <<>>
    ELSE LET d == Head(queue)
         IN  (IF d.amt >= 5 /\ d.tag = "RREF"
              THEN SubSeq(d.recs, 1, (d.amt - 5) \div 8) ELSE <<>>)
             \o Received(Tail(queue))
\* the indices of records
Indices(recs) == { recs[i][1] : i \in 1..Len(recs) }
\* the indices of the records received from a queue
ReceivedIndices(queue) == UNION { Indices(recs) : recs \in {Received(queue)} }

NoCall == [op |-> "none", result |-> "Ok"]
\* a call: its name, its Result and what it put on the wire
Call(op, out) == [op |-> op, result |-> out.result, sent |-> out.sent]
\* a step of the environment, which is not a call
EnvStep(what) == [op |-> what, result |-> "Ok"]

ConnInit ==
    /\ client \in {XPlaneClient_new, MSFSClient_new, DummyClient_new}
    /\ inbox = <<>>
    /\ bridge \in BridgeMaps
    /\ last = NoCall
    /\ max_index = 0
    /\ refreshed = FALSE
    /\ fresh = FALSE

ConnIdle ==
    /\ client = DummyClient_new
    /\ inbox = <<>>
    /\ bridge = EmptyMap
    /\ last = NoCall
    /\ max_index = 0
    /\ refreshed = FALSE
    /\ fresh = FALSE

\* a call that panicked unwound its caller: the connector it owned is not
\* called again
Running == last.result # "Panic"

\* --- UDP connector
XpConnect ==
    /\ client.kind = "xplane"
    /\ Running
    /\ \E bind_ok \in BOOLEAN :
          LET out == xplane_connect(client, bind_ok)
          IN  /\ client' = out.client
              /\ last' = Call("connect", out)
              \* a new socket has nothing queued, and starts a session
              /\ inbox' = IF bind_ok THEN <<>> ELSE inbox
              /\ max_index' = IF bind_ok THEN 0 ELSE max_index
    /\ UNCHANGED <<bridge, refreshed, fresh>>
    /\ UNCHANGED notConnVars

XpDisconnect ==
    /\ client.kind = "xplane"
    /\ Running
    /\ LET out == xplane_disconnect(client)
       IN  /\ client' = out.client
           /\ last' = Call("disconnect", out)
    /\ inbox' = <<>>
    /\ UNCHANGED <<bridge, max_index, refreshed, fresh>>
    /\ UNCHANGED notConnVars

XpSubscribe ==
    /\ client.kind = "xplane"
    /\ Running
    /\ \E variable \in SubscribeNames, send_fails \in BOOLEAN :
          LET out == xplane_subscribe(client, variable, 1, ~send_fails)
          IN  /\ client' = out.client
              /\ last' = IF out.result = "NotConnected" THEN Call("subscribe", out)
                         ELSE Call("subscribe", out)
                                @@ [index |-> out.client.subscriptions[variable],
                                    prev_max |-> max_index]
              /\ max_index' = IF out.result = "NotConnected" THEN max_index
                              ELSE IF out.client.subscriptions[variable] > max_index
                              THEN out.client.subscriptions[variable]
                              ELSE max_index
    /\ UNCHANGED <<inbox, bridge, refreshed, fresh>>
    /\ UNCHANGED notConnVars

XpPoll ==
    /\ client.kind = "xplane"
    /\ Running
    /\ \E out \in xplane_poll(client, inbox) :
          /\ client' = out.client
          /\ last' = Call("poll", out)
                     @@ [nonew |-> inbox = <<>>,
                         taken |-> IF client.socket THEN inbox ELSE <<>>,
                         dropped |-> client.socket /\ \E index \in ReceivedIndices(inbox) :
                            names_of_index(client.subscriptions, index) = {},
                         applied |-> client.socket /\ \E index \in ReceivedIndices(inbox) :
                            names_of_index(client.subscriptions, index) # {}]
    /\ inbox' = IF client.socket THEN <<>> ELSE inbox
    /\ refreshed' = (refreshed \/ client.socket)
    /\ UNCHANGED <<bridge, max_index, fresh>>
    /\ UNCHANGED notConnVars

XpWrite ==
    /\ client.kind = "xplane"
    /\ Running
    /\ \E variable \in WriteNames, value \in WriteValues, send_ok \in BOOLEAN :
          LET out == xplane_write_variable(client, variable, value, send_ok)
          IN  /\ client' = out.client
              /\ last' = Call("write_variable", out)
    /\ UNCHANGED <<inbox, bridge, max_index, refreshed, fresh>>
    /\ UNCHANGED notConnVars

XpExecute ==
    /\ client.kind = "xplane"
    /\ Running
    /\ \E command \in CommandNames, send_ok \in BOOLEAN :
          LET out == xplane_execute_command(client, command, send_ok)
          IN  /\ client' = out.client
              /\ last' = Call("execute_command", out)
    /\ UNCHANGED <<inbox, bridge, max_index, refreshed, fresh>>
    /\ UNCHANGED notConnVars

\* the simulator sends a datagram to the bound socket
XpDeliver ==
    /\ client.kind = "xplane"
    /\ Running
    /\ client.socket
    /\ Len(inbox) < MaxInbox
    \* the long datagram is taken by a poll of its own
    /\ LongDatagram \notin { inbox[i] : i \in 1..Len(inbox) }
    /\ \E d \in Datagrams :
          /\ d = LongDatagram => inbox = <<>>
          /\ inbox' = Append(inbox, d)
    /\ last' = EnvStep("deliver")
    /\ UNCHANGED <<client, bridge, max_index, refreshed, fresh>>
    /\ UNCHANGED notConnVars

\* --- HTTP bridge connector
MsConnect ==
    /\ client.kind = "msfs"
    /\ \E resp \in HttpResponses :
          LET out == msfs_connect(client, resp)
          IN  /\ client' = out.client
              /\ last' = Call("connect", out)
              /\ fresh' = IF out.result = "Ok" THEN TRUE ELSE fresh
    /\ UNCHANGED <<inbox, bridge, max_index, refreshed>>
    /\ UNCHANGED notConnVars

MsDisconnect ==
    /\ client.kind = "msfs"
    /\ LET out == msfs_disconnect(client)
       IN  /\ client' = out.client
           /\ last' = Call("disconnect", out)
    /\ UNCHANGED <<inbox, bridge, max_index, refreshed, fresh>>
    /\ UNCHANGED notConnVars

MsPoll ==
    /\ client.kind = "msfs"
    /\ \E resp \in HttpResponses :
          LET out == msfs_poll(client, resp, bridge)
              received == client.connected /\ resp = "success"
          IN  /\ client' = out.client
              /\ last' = Call("poll", out)
                         @@ [nonew |-> ~fresh, resp |-> resp, before |-> client.variables]
              /\ fresh' = IF received THEN FALSE ELSE fresh
              /\ refreshed' = (refreshed \/ received)
    /\ UNCHANGED <<inbox, bridge, max_index>>
    /\ UNCHANGED notConnVars

MsWrite ==
    /\ client.kind = "msfs"
    /\ \E variable \in XpNames, value \in {Whole(1)}, resp \in HttpResponses :
          LET out == msfs_write_variable(client, variable, value, resp)
          IN  /\ client' = out.client
              /\ last' = Call("write_variable", out)
    /\ UNCHANGED <<inbox, bridge, max_index, refreshed, fresh>>
    /\ UNCHANGED notConnVars

MsExecute ==
    /\ client.kind = "msfs"
    /\ \E command \in {"gear_unsafe"}, resp \in HttpResponses :
          LET out == msfs_execute_command(client, command, resp)
          IN  /\ client' = out.client
              /\ last' = Call("execute_command", out)
    /\ UNCHANGED <<inbox, bridge, max_index, refreshed, fresh>>
    /\ UNCHANGED notConnVars

\* the simulator's variables change behind the bridge
MsBridgeChange ==
    /\ client.kind = "msfs"
    /\ \E m \in BridgeMaps \ {bridge} : bridge' = m
    /\ fresh' = TRUE
    /\ last' = EnvStep("bridge_change")
    /\ UNCHANGED <<client, inbox, max_index, refreshed>>
    /\ UNCHANGED notConnVars

\* --- synthetic connector
DmConnect ==
    /\ client.kind = "dummy"
    /\ LET out == dummy_connect(client)
       IN  /\ client' = out.client
           /\ last' = Call("connect", out)
    /\ UNCHANGED <<inbox, bridge, max_index, refreshed, fresh>>
    /\ UNCHANGED notConnVars

DmDisconnect ==
    /\ client.kind = "dummy"
    /\ LET out == dummy_disconnect(client)
       IN  /\ client' = out.client
           /\ last' = Call("disconnect", out)
    /\ UNCHANGED <<inbox, bridge, max_index, refreshed, fresh>>
    /\ UNCHANGED notConnVars

DmPoll ==
    /\ client.kind = "dummy"
    /\ client.connected => \E n \in 0..(MaxCounter - 1) : client.counter = counter_after(n)
    /\ LET out == dummy_poll(client)
       IN  /\ client' = out.client
           /\ last' = Call("poll", out) @@ [nonew |-> TRUE]
    /\ refreshed' = (refreshed \/ client.connected)
    /\ UNCHANGED <<inbox, bridge, max_index, fresh>>
    /\ UNCHANGED notConnVars

DmWrite ==
    /\ client.kind = "dummy"
    /\ \E variable \in XpNames, value \in {Whole(1)} :
          LET out == dummy_write_variable(client, variable, value)
          IN  /\ client' = out.client
              /\ last' = Call("write_variable", out)
    /\ UNCHANGED <<inbox, bridge, max_index, refreshed, fresh>>
    /\ UNCHANGED notConnVars

DmExecute ==
    /\ client.kind = "dummy"
    /\ LET out == dummy_execute_command(client, "gear_unsafe")
       IN  /\ client' = out.client
           /\ last' = Call("execute_command", out)
    /\ UNCHANGED <<inbox, bridge, max_index, refreshed, fresh>>
    /\ UNCHANGED notConnVars

ConnNext ==
    \/ XpConnect \/ XpDisconnect \/ XpSubscribe \/ XpPoll
    \/ XpWrite \/ XpExecute \/ XpDeliver
    \/ MsConnect \/ MsDisconnect \/ MsPoll \/ MsWrite \/ MsExecute \/ MsBridgeChange
    \/ DmConnect \/ DmDisconnect \/ DmPoll \/ DmWrite \/ DmExecute

(***************************************************************************)
(* trait SimClient (openflite-connect/src/lib.rs): the calls the           *)
(* orchestrator makes on its Box<dyn SimClient>.  Besides the three        *)
(* connectors of the crate the box may hold any other implementor of the   *)
(* trait (kind "other"), each of whose calls returns Ok or Err.            *)
(* io_ok: whether the I/O of the call succeeds; body: the variables the    *)
(* simulator reports.                                                      *)
(***************************************************************************)
OtherClient_new == [kind |-> "other", connected |-> FALSE, data |-> EmptyMap]

HttpResult(io_ok) == IF io_ok THEN "success" ELSE "transport_error"

connect(c, io_ok) ==
    CASE c.kind = "xplane" -> xplane_connect(c, io_ok)
      [] c.kind = "msfs" -> msfs_connect(c, HttpResult(io_ok))
      [] c.kind = "dummy" -> dummy_connect(c)
      [] c.kind = "other" ->
            IF io_ok THEN Outcome([c EXCEPT !.connected = TRUE], "Ok", <<>>)
            ELSE Outcome(c, "Err", <<>>)

disconnect(c) ==
    CASE c.kind = "xplane" -> xplane_disconnect(c)
      [] c.kind = "msfs" -> msfs_disconnect(c)
      [] c.kind = "dummy" -> dummy_disconnect(c)
      [] c.kind = "other" -> Outcome([c EXCEPT !.connected = FALSE], "Ok", <<>>)

\* the outcomes poll may have; queue: the datagrams queued on the socket
poll(c, io_ok, body, queue) ==
    CASE c.kind = "xplane" -> xplane_poll(c, queue)
      [] c.kind = "msfs" -> { msfs_poll(c, HttpResult(io_ok), body) }
      [] c.kind = "dummy" -> { dummy_poll(c) }
      [] c.kind = "other" ->
            { IF io_ok THEN Outcome([c EXCEPT !.data = body], "Ok", <<>>)
              ELSE Outcome(c, "Err", <<>>) }

write_variable(c, variable, value, io_ok) ==
    CASE c.kind = "xplane" -> xplane_write_variable(c, variable, value, io_ok)
      [] c.kind = "msfs" -> msfs_write_variable(c, variable, value, HttpResult(io_ok))
      [] c.kind = "dummy" -> dummy_write_variable(c, variable, value)
      [] c.kind = "other" -> Outcome(c, IF io_ok THEN "Ok" ELSE "Err", <<>>)

execute_command(c, command, io_ok) ==
    CASE c.kind = "xplane" -> xplane_execute_command(c, command, io_ok)
      [] c.kind = "msfs" -> msfs_execute_command(c, command, HttpResult(io_ok))
      [] c.kind = "dummy" -> dummy_execute_command(c, command)
      [] c.kind = "other" -> Outcome(c, IF io_ok THEN "Ok" ELSE "Err", <<>>)

(***************************************************************************)
(* Wire protocol and device (protocol.rs, device.rs), as far as the        *)
(* orchestrator uses them.  A device is its identity, the port it was      *)
(* opened on.  What is pending on its serial line when it is polled is an  *)
(* input of the poll.                                                      *)
(***************************************************************************)
\* enum Command; a String argument is a string, a u8 or i32 argument a number
Command_Init == [kind |-> "Init"]
GetInfo == [kind |-> "GetInfo"]
GetName == [kind |-> "GetName"]
SetName(name) == [kind |-> "SetName", name |-> name]
GetVersion == [kind |-> "GetVersion"]
ResetBoard == [kind |-> "ResetBoard"]
SetPin(pin, value) == [kind |-> "SetPin", pin |-> pin, value |-> value]
Set7Segment(module, index, value) ==
    [kind |-> "Set7Segment", module |-> module, index |-> index, value |-> value]
SetLCD(display_id, line, text) ==
    [kind |-> "SetLCD", display_id |-> display_id, line |-> line, text |-> text]
SetStepper(motor_id, steps) ==
    [kind |-> "SetStepper", motor_id |-> motor_id, steps |-> steps]
SetRGB(led_id, r, g, b) == [kind |-> "SetRGB", led_id |-> led_id, r |-> r, g |-> g, b |-> b]

\* pub fn id(&self) -> u8
Command_id(cmd) ==
    CASE cmd.kind = "Init" -> 1
      [] cmd.kind = "ResetBoard" -> 5
      [] cmd.kind = "GetInfo" -> 7
      [] cmd.kind = "GetName" -> 8
      [] cmd.kind = "SetName" -> 9
      [] cmd.kind = "GetVersion" -> 10
      [] cmd.kind = "SetPin" -> 3
      [] cmd.kind = "Set7Segment" -> 15
      [] cmd.kind = "SetLCD" -> 16
      [] cmd.kind = "SetStepper" -> 17
      [] cmd.kind = "SetRGB" -> 18

\* {} of format! on an integer: its decimal digits, with a '-' when negative
DigitChar(d) == SubSeq("0123456789", d + 1, d + 1)
RECURSIVE Decimal(_)
Decimal(n) ==
    IF n < 0 THEN "-" \o Decimal(-n)
    ELSE IF n < 10 THEN DigitChar(n)
    ELSE Decimal(n \div 10) \o DigitChar(n % 10)

\* mutant: SetPin writes its value ahead of its pin
Command_serialize_value_first(cmd) ==
    LET id == Decimal(Command_id(cmd))
    IN  CASE cmd.kind = "SetName" -> id \o "," \o cmd.name \o ";"
          [] cmd.kind = "SetPin" ->
                id \o "," \o Decimal(cmd.value) \o "," \o Decimal(cmd.pin) \o ";"
          [] cmd.kind = "Set7Segment" ->
                id \o "," \o Decimal(cmd.module) \o "," \o Decimal(cmd.index)
                   \o "," \o cmd.value \o ";"
          [] cmd.kind = "SetLCD" ->
                id \o "," \o Decimal(cmd.display_id) \o "," \o Decimal(cmd.line)
                   \o "," \o cmd.text \o ";"
          [] cmd.kind = "SetStepper" ->
                id \o "," \o Decimal(cmd.motor_id) \o "," \o Decimal(cmd.steps) \o ";"
          [] cmd.kind = "SetRGB" ->
                id \o "," \o Decimal(cmd.led_id) \o "," \o Decimal(cmd.r)
                   \o "," \o Decimal(cmd.g) \o "," \o Decimal(cmd.b) \o ";"
          [] OTHER -> id \o ";"

\* pub fn serialize(&self) -> String
Command_serialize(cmd) ==
    LET id == Decimal(Command_id(cmd))
    IN  CASE cmd.kind = "SetName" -> id \o "," \o cmd.name \o ";"
          [] cmd.kind = "SetPin" ->
                id \o "," \o Decimal(cmd.pin) \o "," \o Decimal(cmd.value) \o ";"
          [] cmd.kind = "Set7Segment" ->
                id \o "," \o Decimal(cmd.module) \o "," \o Decimal(cmd.index)
                   \o "," \o cmd.value \o ";"
          [] cmd.kind = "SetLCD" ->
                id \o "," \o Decimal(cmd.display_id) \o "," \o Decimal(cmd.line)
                   \o "," \o cmd.text \o ";"
          [] cmd.kind = "SetStepper" ->
                id \o "," \o Decimal(cmd.motor_id) \o "," \o Decimal(cmd.steps) \o ";"
          [] cmd.kind = "SetRGB" ->
                id \o "," \o Decimal(cmd.led_id) \o "," \o Decimal(cmd.r)
                   \o "," \o Decimal(cmd.g) \o "," \o Decimal(cmd.b) \o ";"
          [] OTHER -> id \o ";"

\* the characters of a string: its first and its last
FirstChar(s) == SubSeq(s, 1, 1)
LastChar(s) == SubSeq(s, Len(s), Len(s))
ButLast(s) == SubSeq(s, 1, Len(s) - 1)
\* char::is_whitespace on the characters a serial line carries
Whitespace == {" ", "\t", "\n", "\r"}

\* str::trim_end_matches(ch): every trailing ch is removed
RECURSIVE trim_end_matches(_, _)
trim_end_matches(s, ch) ==
    IF Len(s) > 0 /\ LastChar(s) = ch THEN trim_end_matches(ButLast(s), ch) ELSE s
\* str::trim(): leading and trailing whitespace is removed
RECURSIVE trim_start(_)
trim_start(s) ==
    IF Len(s) > 0 /\ FirstChar(s) \in Whitespace THEN trim_start(Tail(s)) ELSE s
RECURSIVE trim_end(_)
trim_end(s) ==
    IF Len(s) > 0 /\ LastChar(s) \in Whitespace THEN trim_end(ButLast(s)) ELSE s
trim(s) == trim_end(trim_start(s))

\* str::split(sep).collect(): the pieces between the separators, at least one
RECURSIVE split(_, _)
split(s, sep) ==
    IF Len(s) = 0 THEN <<"">>
    ELSE LET rest == split(Tail(s), sep)
         IN  IF FirstChar(s) = sep THEN <<"">> \o rest
             ELSE <<FirstChar(s) \o Head(rest)>> \o Tail(rest)

\* str::parse::<u8>(): an optional '+', then one or more decimal digits that
\* make a number of at most 255
DigitValue(ch) ==
    CHOOSE d \in 0..9 : DigitChar(d) = ch
RECURSIVE digits_value(_, _)
digits_value(s, acc) ==
    IF Len(s) = 0 THEN Some(acc)
    ELSE IF \E d \in 0..9 : DigitChar(d) = FirstChar(s)
    THEN LET next == acc * 10 + DigitValue(FirstChar(s))
         IN  IF next > 255 THEN None ELSE digits_value(Tail(s), next)
    ELSE None
parse_u8(s) ==
    LET digits == IF Len(s) > 0 /\ FirstChar(s) = "+" THEN Tail(s) ELSE s
    IN  IF Len(digits) = 0 THEN None ELSE digits_value(digits, 0)

\* mutant: the trailing ';' is left on the input
Response_parse_keep_semicolon(line) ==
    LET input == trim(line)
        parts == split(input, ",")
        id == parse_u8(parts[1])
        args == Tail(parts)
    IN  IF ~IsSome(id) THEN None
        ELSE IF Unwrap(id) = 7 /\ Len(args) >= 4
        THEN Some(InfoResponse(args[1], args[2], args[3], args[4]))
        ELSE IF Unwrap(id) = 11 /\ Len(args) >= 2
        THEN Some(InputEvent(args[1], args[2]))
        ELSE Some(UnknownResponse(Unwrap(id), args))

\* pub fn parse(input: &str) -> Option<Self>
Response_parse(line) ==
    LET input == trim(trim_end_matches(line, ";"))
        parts == split(input, ",")
        id == parse_u8(parts[1])
        args == Tail(parts)
    IN  IF ~IsSome(id) THEN None
        ELSE IF Unwrap(id) = 7 /\ Len(args) >= 4
        THEN Some(InfoResponse(args[1], args[2], args[3], args[4]))
        ELSE IF Unwrap(id) = 11 /\ Len(args) >= 2
        THEN Some(InputEvent(args[1], args[2]))
        ELSE Some(UnknownResponse(Unwrap(id), args))

Device(port, name, board_type, serial, version) ==
    [port |-> port, name |-> name, board_type |-> board_type,
     serial |-> serial, version |-> version]

\* pub fn send_command; io_ok: whether write_all and flush succeed
send_command(dev, cmd, io_ok) ==
    [dev |-> dev, result |-> IF io_ok THEN "Ok" ELSE "Err",
     written |-> IF io_ok THEN <<cmd>> ELSE <<>>]

\* BufRead::read_line on a serial port with a read timeout; data: the bytes
\* that arrive before the timeout.  The line is what comes up to and with the
\* first '\n'; without one the read times out and read_line returns Err.
RECURSIVE read_line(_)
read_line(data) ==
    IF Len(data) = 0 THEN None
    ELSE IF FirstChar(data) = "\n" THEN Some("\n")
    ELSE LET rest == read_line(Tail(data))
         IN  IF IsSome(rest) THEN Some(FirstChar(data) \o Unwrap(rest)) ELSE None

\* mutant: any line that decodes as a response is accepted
update_info_any_response(dev, io_ok, data) ==
    LET sent == send_command(dev, GetInfo, io_ok)
        line == read_line(data)
        resp == IF IsSome(line) THEN Response_parse(Unwrap(line)) ELSE None
    IN  IF sent.result # "Ok" \/ ~IsSome(line) THEN [dev |-> dev, result |-> "Err"]
        ELSE IF IsSome(resp) /\ Unwrap(resp).kind = "Info"
        THEN [dev |-> [dev EXCEPT !.name = Unwrap(resp).name,
                                  !.board_type = Unwrap(resp).board_type,
                                  !.serial = Unwrap(resp).serial,
                                  !.version = Unwrap(resp).version],
              result |-> "Ok"]
        ELSE IF IsSome(resp) THEN [dev |-> dev, result |-> "Ok"]
        ELSE [dev |-> dev, result |-> "Err"]

\* pub fn update_info; data: the bytes the board answers with
update_info(dev, io_ok, data) ==
    LET sent == send_command(dev, GetInfo, io_ok)
        line == read_line(data)
        resp == IF IsSome(line) THEN Response_parse(Unwrap(line)) ELSE None
    IN  IF sent.result # "Ok" \/ ~IsSome(line) THEN [dev |-> dev, result |-> "Err"]
        ELSE IF IsSome(resp) /\ Unwrap(resp).kind = "Info"
        THEN [dev |-> [dev EXCEPT !.name = Unwrap(resp).name,
                                  !.board_type = Unwrap(resp).board_type,
                                  !.serial = Unwrap(resp).serial,
                                  !.version = Unwrap(resp).version],
              result |-> "Ok"]
        ELSE [dev |-> dev, result |-> "Err"]

\* pub fn new; open_ok: whether the port opens
MobiFlightDevice_new(port_name, open_ok, io_ok, line) ==
    IF ~open_ok THEN None
    ELSE LET dev == Device(port_name, "Unknown", "Unknown", "Unknown", "Unknown")
             out == update_info(dev, io_ok, line)
         IN  IF out.result = "Ok" THEN Some(out.dev) ELSE None

\* `value as u8` of an i32 keeps the low eight bits
set_pin(dev, pin, value, io_ok) == send_command(dev, SetPin(pin, value % 256), io_ok)
set_7segment(dev, module, index, value, io_ok) ==
    send_command(dev, Set7Segment(module, index, value), io_ok)
set_lcd(dev, display_id, line, text, io_ok) ==
    send_command(dev, SetLCD(display_id, line, text), io_ok)

\* the bytes of a sequence of pieces of serial data
RECURSIVE Bytes(_)
Bytes(pending) == IF pending = <<>> THEN "" ELSE Head(pending) \o Bytes(Tail(pending))

\* mutant: every pending line is read and parsed
RECURSIVE every_line(_)
every_line(data) ==
    LET line == read_line(data)
    IN  IF ~IsSome(line) THEN <<>>
        ELSE LET resp == Response_parse(Unwrap(line))
             IN  (IF IsSome(resp) THEN <<Unwrap(resp)>> ELSE <<>>)
                    \o every_line(SubSeq(data, Len(Unwrap(line)) + 1, Len(data)))
poll_events_every_line(dev, io_ok, pending) ==
    IF io_ok /\ Len(Bytes(pending)) > 0
    THEN [dev |-> dev, responses |-> every_line(Bytes(pending)), left |-> <<>>]
    ELSE [dev |-> dev, responses |-> <<>>, left |-> pending]

\* pub fn poll_events; pending: what is pending on the serial line, piece by
\* piece; io_ok: whether bytes_to_read succeeds.  The BufReader made for the
\* call takes every pending byte off the port, read_line gives the first
\* line (or times out when no '\n' arrives), and the reader is dropped with
\* the rest (left: what stays pending).
poll_events(dev, io_ok, pending) ==
    IF io_ok /\ Len(Bytes(pending)) > 0
    THEN [dev |-> dev,
          responses |-> LET line == read_line(Bytes(pending))
                            resp == IF IsSome(line) THEN Response_parse(Unwrap(line))
                                    ELSE None
                        IN  IF IsSome(resp) THEN <<Unwrap(resp)>> ELSE <<>>,
          left |-> <<>>]
    ELSE [dev |-> dev, responses |-> <<>>, left |-> pending]

(***************************************************************************)
(* Orchestrator (openflite-core/src/lib.rs)                                *)
(*   devices, sim_client, mapping_engine, injected_responses: the fields   *)
(*       of Core behind their mutexes                                      *)
(*   locks: for each mutex "free", "run" (held by the loop) or "poisoned"  *)
(*   pc, hardware_responses, hardware_actions: the position of the loop    *)
(*       of run and its locals                                             *)
(*   step: history, what the last step was and did                         *)
(*   event_rx: the receiver of the event channel that Core::new returned,  *)
(*       "open" while its owner holds it and "dropped" afterwards          *)
(***************************************************************************)
\* the most hardware events held, in the injected queue and in the hands of
\* the running tick, when one more is injected
MaxInjected == 2
\* the most pieces of serial data pending on one serial line when it is polled
MaxPending == 1
\* the most devices tracked
MaxDevices == 2

\* the serial ports of the host, and what the board on each answers to GetInfo
Ports == <<"COM1">>
IdentityLine(port) ==
    IF port = "COM1" THEN "7,Panel,Mega,SN1,1.0;\r\n" ELSE "7,Pedestal,Uno,SN2,1.0;\r\n"
\* what a port does when it is opened and asked for its identity
ScanAnswers == {"identity", "no_open", "short_identity"}
\* the pieces of serial data a board sends: a line, a line that does not
\* decode, a line that is not yet complete, two lines at once
DeviceLines ==
    {"11,GearToggle,0;\r\n", "junk\r\n", "11,GearToggle,1;",
     "11,GearToggle,1;\r\n11,GearToggle,0;\r\n"}
\* a serial line when it is polled: what is pending, and whether
\* bytes_to_read succeeds
SerialLines ==
    { [io_ok |-> TRUE, pending |-> p] : p \in SeqsUpTo(DeviceLines, MaxPending) }
        \cup { [io_ok |-> FALSE, pending |-> <<"11,GearToggle,0;\r\n">>] }
InjectedEvents ==
    { <<"demo", InputEvent("GearToggle", "1")>>, <<"demo", InputEvent("Knob", "0")>>,
      <<"demo", InputEvent("GearToggle", "0")>> }
CoreBodies == { EmptyMap, [n \in {"alt"} |-> Whole(1200)] }
\* the datagrams queued on the socket of a UDP connector when it is polled
CoreQueues == { <<>>, << Datagram("RREF", << <<1, Whole(1200)>> >>, 0) >> }
\* a UDP connector its owner connected and subscribed to "alt" before
\* handing it over
XPlaneSubscribed ==
    xplane_subscribe(xplane_connect(XPlaneClient_new, TRUE).client, "alt", 1, TRUE).client
NewClients == { XPlaneClient_new, XPlaneSubscribed, OtherClient_new }

PanelProject ==
    MobiFlightProject(
        << OutputConfig(TRUE, "Alt", ConfigSettings(Some(Source("alt")), Some(GreaterThan1000),
                                                    Some(Display("Pin", "SN1", "13")))),
           OutputConfig(TRUE, "Alt", ConfigSettings(Some(Source("alt")), None,
                                                    Some(Display("7Segment", "SN9", "0")))),
           OutputConfig(TRUE, "Alt", ConfigSettings(Some(Source("alt")), None,
                                                    Some(Display("LCD", "SN1", "0")))) >>,
        << InputConfig(TRUE, "GearToggle",
                       InputSettings(Some(ButtonAction(Some(GearCommand),
                                                       Some(Action(None, Some("gear_dref"), Some("1"))))),
                                     None)),
           InputConfig(TRUE, "Knob",
                       InputSettings(None, Some(EncoderAction(Some(Action(Some("hdg_left"), None, None)),
                                                              Some(Action(None, None, None)))))),
           InputConfig(TRUE, "GearToggle",
                       InputSettings(Some(ButtonAction(Some(Action(Some("gear_light"), Some("light_dref"),
                                                                   Some("5"))),
                                                       Some(Action(None, None, Some("1"))))),
                                     Some(EncoderAction(Some(Action(None, Some("enc_dref"), Some("abc"))),
                                                        Some(Action(None, Some("enc_dref"), None)))))) >>)
\* a configuration whose command path is 500 bytes long
LongPathProject ==
    MobiFlightProject(
        <<>>,
        << InputConfig(TRUE, "GearToggle",
                       InputSettings(Some(ButtonAction(Some(Action(Some("LONG500"), None, None)),
                                                       None)), None)) >>)
Documents == {"panel.mcc", "longpath.mcc", "broken.mcc"}
\* MobiFlightProject::load on the documents of the model
MobiFlightProject_load(xml_content) ==
    CASE xml_content = "panel.mcc" -> Some(PanelProject)
      [] xml_content = "longpath.mcc" -> Some(LongPathProject)
      [] OTHER -> None

Free == "free"
AllFree ==
    [devices |-> Free, sim_client |-> Free, mapping_engine |-> Free,
     injected_responses |-> Free]

\* a call of a caller that returned
Returned(op, result) == [op |-> op, result |-> result]
\* a step of the loop of run
LoopStep(op) == [op |-> op, result |-> "Ok"]

CoreInit ==
    /\ devices = <<>>
    /\ sim_client = None
    /\ mapping_engine = None
    /\ injected_responses = <<>>
    /\ locks = AllFree
    /\ pc = "collect"
    /\ hardware_responses = <<>>
    /\ hardware_actions = <<>>
    /\ step = NoCall
    /\ event_rx = "open"

CoreIdle ==
    /\ devices = <<>>
    /\ sim_client = None
    /\ mapping_engine = None
    /\ injected_responses = <<>>
    /\ locks = AllFree
    /\ pc = "idle"
    /\ hardware_responses = <<>>
    /\ hardware_actions = <<>>
    /\ step = NoCall
    /\ event_rx = "open"

\* lock().unwrap() by a caller: it waits while the loop holds the mutex and
\* panics when the mutex is poisoned
CanLock(l) == locks[l] # "run"
Poisoned(l) == locks[l] = "poisoned"

\* mutant: the connector is installed whether or not its connect succeeded
set_sim_client_install_first(sim, new_client, io_ok) ==
    LET out == connect(new_client, io_ok)
    IN  [sim_client |-> Some(out.client),
         result |-> IF out.result = "Ok" THEN "Ok" ELSE "Err"]

\* pub fn set_sim_client: `client.connect()?` and then `*sim = Some(client)`
set_sim_client(sim, new_client, io_ok) ==
    LET out == connect(new_client, io_ok)
    IN  IF out.result # "Ok" THEN [sim_client |-> sim, result |-> "Err"]
        ELSE [sim_client |-> Some(out.client), result |-> "Ok"]

\* mutant: the connector is disconnected in place (as_mut) and stays active
disconnect_sim_as_mut(sim) ==
    [sim_client |-> IF IsSome(sim) THEN Some(disconnect(Unwrap(sim)).client) ELSE None,
     disconnected |-> IF IsSome(sim) THEN <<disconnect(Unwrap(sim)).client>> ELSE <<>>,
     events |-> <<[kind |-> "SimDisconnected"]>>]

\* pub fn disconnect_sim
disconnect_sim(sim) ==
    [sim_client |-> None,
     disconnected |-> IF IsSome(sim) THEN <<disconnect(Unwrap(sim)).client>> ELSE <<>>,
     events |-> <<[kind |-> "SimDisconnected"]>>]

\* mutant: the rules of the loaded document are added to those in place
load_config_merge(engine, xml_content) ==
    LET project == MobiFlightProject_load(xml_content)
    IN  IF IsSome(project)
        THEN [mapping_engine |->
                  IF IsSome(engine)
                  THEN Some(MobiFlightProject(
                           Unwrap(engine).outputs \o Unwrap(project).outputs,
                           Unwrap(engine).inputs \o Unwrap(project).inputs))
                  ELSE project,
              result |-> "Ok"]
        ELSE [mapping_engine |-> engine, result |-> "Err"]

\* pub fn load_config
load_config(engine, xml_content) ==
    LET project == MobiFlightProject_load(xml_content)
    IN  IF IsSome(project) THEN [mapping_engine |-> project, result |-> "Ok"]
        ELSE [mapping_engine |-> engine, result |-> "Err"]

\* the line a board answers GetInfo with: its identity, an identity with too
\* few fields, or the line given
AnswerLine(port, a) ==
    CASE a = "identity" -> IdentityLine(port)
      [] a = "short_identity" -> "7,Panel;\r\n"
      [] OTHER -> a

\* lib.rs:78, MobiFlightDevice::new(&port), on a port that does a
open_port(port, a) == MobiFlightDevice_new(port, a # "no_open", TRUE, AnswerLine(port, a))
\* open_port for the ports and answers of the model, tabulated
PortNames == {Ports[i] : i \in 1..Len(Ports)}
Opened == [port \in PortNames, a \in ScanAnswers |-> open_port(port, a)]
\* the devices a scan can add to the device set
TrackedDevices ==
    { Unwrap(o) : o \in { Opened[x] : x \in (PortNames \X ScanAnswers) } \ {None} }

\* lines 77-82: the device MobiFlightDevice::new gave is added and announced
push_device(devs, events, dev) ==
    [devices |-> Append(devs, dev),
     events |-> Append(events, [kind |-> "DeviceDetected", name |-> dev.name])]

\* the loop of scan_devices over ports[i..]; opened: what
\* MobiFlightDevice::new gives on each port
RECURSIVE scan_loop(_, _, _, _)
scan_loop(devs, events, i, opened) ==
    IF i > Len(Ports) THEN [devices |-> devs, events |-> events]
    ELSE IF ~(\E k \in 1..Len(devs) : devs[k].serial = Ports[i])
              /\ IsSome(opened[Ports[i]])
         THEN scan_loop(push_device(devs, events, Unwrap(opened[Ports[i]])).devices,
                        push_device(devs, events, Unwrap(opened[Ports[i]])).events,
                        i + 1, opened)
         ELSE scan_loop(devs, events, i + 1, opened)

\* pub fn scan_devices; scan_ok: whether the ports can be enumerated
scan_devices(devs, scan_ok, opened) ==
    IF ~scan_ok THEN [devices |-> devs, events |-> <<>>, result |-> "Err"]
    ELSE scan_loop(devs, <<>>, 1, opened) @@ [result |-> "Ok"]

\* mutant: the result of send is unwrapped
broadcast_unwrap(rx, event) ==
    IF rx = "open" THEN [delivered |-> <<event>>, result |-> "Ok"]
    ELSE [delivered |-> <<>>, result |-> "Panic"]

\* pub fn broadcast: `let _ = self.event_tx.send(event)`.  send on an
\* unbounded channel does not wait; it returns Err when the receiver is
\* closed or dropped, and the Err is discarded.  delivered: what the channel
\* took.
broadcast(rx, event) ==
    [delivered |-> IF rx = "open" THEN <<event>> ELSE <<>>, result |-> "Ok"]

\* the events of one call or step, published one after the other; a panic
\* ends the publishing
RECURSIVE broadcast_all(_, _)
broadcast_all(rx, events) ==
    IF events = <<>> THEN [delivered |-> <<>>, result |-> "Ok"]
    ELSE LET b == broadcast(rx, Head(events))
             rest == broadcast_all(rx, Tail(events))
         IN  IF b.result = "Panic" THEN b
             ELSE [delivered |-> b.delivered \o rest.delivered, result |-> rest.result]

\* pub fn get_devices
get_devices(devs) ==
    [k \in 1..Len(devs) |-> [name |-> devs[k].name, board_type |-> devs[k].board_type]]

\* pub fn get_all_variables (of Core)
core_get_all_variables(sim) ==
    IF IsSome(sim) THEN get_all_variables(Unwrap(sim)) ELSE EmptyMap

\* pub fn inject_hardware_response
inject_hardware_response(injected, dev_name, resp) == Append(injected, <<dev_name, resp>>)

\* mutant: the queue is copied and not emptied
take_injected_clone(responses, injected) ==
    [hardware_responses |-> responses \o injected, injected |-> injected]

\* lines 101-104: hardware_responses.append(&mut *injected)
take_injected(responses, injected) ==
    [hardware_responses |-> responses \o injected, injected |-> <<>>]

\* mutant: the events of the devices go ahead of what was collected before
push_device_events_first(responses, dev, resps) ==
    [k \in 1..Len(resps) |-> <<dev.name, resps[k]>>] \o responses

\* lines 110-112: the events of one device, tagged with its name
push_device_events(responses, dev, resps) ==
    responses \o [k \in 1..Len(resps) |-> <<dev.name, resps[k]>>]

\* the complete lines in pending serial data
RECURSIVE LineCount(_)
LineCount(data) ==
    IF Len(data) = 0 THEN 0
    ELSE (IF FirstChar(data) = "\n" THEN 1 ELSE 0) + LineCount(Tail(data))

\* poll_events for the devices and serial lines of the model, tabulated, with
\* what was pending (history): the complete lines, and whether bytes were
\* available
PollTable ==
    [d \in TrackedDevices, l \in SerialLines |->
        poll_events(d, l.io_ok, l.pending)
            @@ [lines |-> LineCount(Bytes(l.pending)),
                available |-> l.io_ok /\ Len(Bytes(l.pending)) > 0]]

\* lines 107-113: the loop over the devices from the i-th on;
\* lines[i]: whether bytes_to_read of the i-th device succeeds, and the lines
\* pending on its serial line
RECURSIVE poll_devices_loop(_, _, _, _)
\* lines 108-113: the body of the loop for the i-th device, out being what
\* its poll_events gives, and the rest of the loop
poll_device(devs, responses, i, lines, out) ==
    poll_devices_loop([devs EXCEPT ![i] = out.dev],
                      push_device_events(responses, out.dev, out.responses),
                      i + 1, lines)
poll_devices_loop(devs, responses, i, lines) ==
    IF i > Len(devs) THEN [devices |-> devs, hardware_responses |-> responses]
    ELSE poll_device(devs, responses, i, lines, PollTable[devs[i], lines[i]])

\* lines 136-145: the event published for a hardware response
input_events(dev_name, resp) ==
    IF resp.kind = "InputEvent"
    THEN <<[kind |-> "VariableChanged", name |-> <<dev_name, ":", resp.name>>,
            value |-> UnwrapOr(ParseF64(resp.value), Whole(0))]>>
    ELSE <<>>

\* lines 149-157: one simulator action handed to the connector; call: the
\* method of the connector that is called and its arguments (none for
\* SimAction::None)
dispatch(c, action, io_ok) ==
    CASE action.kind = "Command" ->
            [call |-> <<"execute_command", action.cmd>>,
             out |-> execute_command(c, action.cmd, io_ok)]
      [] action.kind = "WriteDataref" ->
            [call |-> <<"write_variable", action.dref, action.val>>,
             out |-> write_variable(c, action.dref, action.val, io_ok)]
      [] OTHER -> [call |-> <<>>, out |-> Outcome(c, "Ok", <<>>)]

\* lines 148-158: the loop over sim_actions from the i-th on; failing: the
\* actions whose I/O fails; log: the calls made so far.  A panic of the
\* connector ends it.
RECURSIVE dispatch_loop(_, _, _, _, _)
dispatch_loop(c, actions, i, failing, log) ==
    IF i > Len(actions) THEN [client |-> c, log |-> log, panicked |-> FALSE]
    ELSE LET d == dispatch(c, actions[i], i \notin failing)
             calls == IF d.call = <<>> THEN log ELSE Append(log, d.call)
         IN  IF d.out.result = "Panic"
             THEN [client |-> d.out.client, log |-> calls, panicked |-> TRUE]
             ELSE dispatch_loop(d.out.client, actions, i + 1, failing, calls)

\* mutant: the first tracked device is taken, whatever its serial
find_device_any(devs, serial) ==
    IF devs = <<>> THEN None ELSE Some(1)

\* devices.iter_mut().find(|d| d.serial == serial)
find_device(devs, serial) ==
    LET hits == { k \in 1..Len(devs) : devs[k].serial = serial }
    IN  IF hits = {} THEN None
        ELSE Some(CHOOSE k \in hits : \A j \in hits : k <= j)

\* lines 169-195: one hardware action sent to the device it names
apply_action(dev, action, io_ok) ==
    CASE action.kind = "SetPin" -> set_pin(dev, action.pin, action.value, io_ok)
      [] action.kind = "Set7Segment" ->
            set_7segment(dev, action.module, action.index, action.value, io_ok)
      [] action.kind = "SetLCD" ->
            set_lcd(dev, action.display_id, action.line, action.text, io_ok)

\* lines 168-196: the loop over hardware_actions from the i-th on
RECURSIVE apply_loop(_, _, _, _, _)
apply_loop(devs, actions, i, failing, log) ==
    IF i > Len(actions) THEN log
    ELSE LET k == find_device(devs, actions[i].serial)
         IN  IF IsSome(k)
             THEN LET out == apply_action(devs[Unwrap(k)], actions[i], i \notin failing)
                  IN  apply_loop(devs, actions, i + 1, failing,
                                 Append(log, [device |-> Unwrap(k), action |-> actions[i]]))
             ELSE apply_loop(devs, actions, i + 1, failing, log)

\* --- the callers of Core
LoadConfig ==
    /\ \E xml_content \in Documents :
          LET out == load_config(mapping_engine, xml_content)
              doc == [xml_content |-> xml_content]
          IN  IF out.result = "Err"
              THEN /\ step' = Returned("load_config", "Err") @@ doc
                   /\ UNCHANGED mapping_engine
              ELSE /\ CanLock("mapping_engine")
                   /\ IF Poisoned("mapping_engine")
                      THEN /\ step' = Returned("load_config", "Panic") @@ doc
                           /\ UNCHANGED mapping_engine
                      ELSE /\ step' = Returned("load_config", "Ok") @@ doc
                           /\ mapping_engine' = out.mapping_engine
    /\ UNCHANGED <<devices, sim_client, injected_responses, locks, pc,
                   hardware_responses, hardware_actions>>
    /\ UNCHANGED <<event_rx, notCoreVars>>

SetSimClient ==
    /\ \E new_client \in NewClients, io_ok \in BOOLEAN :
          LET out == set_sim_client(sim_client, new_client, io_ok)
          IN  IF out.result = "Err"
              THEN /\ step' = Returned("set_sim_client", "Err")
                   /\ sim_client' = out.sim_client
              ELSE /\ CanLock("sim_client")
                   /\ IF Poisoned("sim_client")
                      THEN /\ step' = Returned("set_sim_client", "Panic")
                           /\ UNCHANGED sim_client
                      ELSE /\ step' = Returned("set_sim_client", "Ok")
                           /\ sim_client' = out.sim_client
    /\ UNCHANGED <<devices, mapping_engine, injected_responses, locks, pc,
                   hardware_responses, hardware_actions>>
    /\ UNCHANGED <<event_rx, notCoreVars>>

DisconnectSim ==
    /\ CanLock("sim_client")
    /\ IF Poisoned("sim_client")
       THEN /\ step' = Returned("disconnect_sim", "Panic")
            /\ UNCHANGED sim_client
       ELSE LET out == disconnect_sim(sim_client)
                b == broadcast_all(event_rx, out.events)
            IN  /\ step' = Returned("disconnect_sim", b.result)
                            @@ [removed |-> sim_client,
                                disconnected |-> out.disconnected,
                                events |-> out.events,
                                delivered |-> b.delivered]
                /\ sim_client' = out.sim_client
    /\ UNCHANGED <<devices, mapping_engine, injected_responses, locks, pc,
                   hardware_responses, hardware_actions>>
    /\ UNCHANGED <<event_rx, notCoreVars>>

\* the call with what it returned (out) and what it published (b)
ScanReturned(out, b) ==
    Returned("scan_devices", IF b.result = "Panic" THEN "Panic" ELSE out.result)
        @@ [events |-> out.events, delivered |-> b.delivered]
ScanApplied(out) ==
    /\ Len(out.devices) <= MaxDevices
    /\ devices' = out.devices
    /\ step' = ScanReturned(out, broadcast_all(event_rx, out.events))

ScanDevices ==
    /\ CanLock("devices")
    /\ \E scan_ok \in BOOLEAN, answer \in [PortNames -> ScanAnswers] :
          ScanApplied(scan_devices(devices, scan_ok,
                                   [p \in PortNames |-> Opened[p, answer[p]]]))
    /\ UNCHANGED <<sim_client, mapping_engine, injected_responses, locks, pc,
                   hardware_responses, hardware_actions>>
    /\ UNCHANGED <<event_rx, notCoreVars>>

InjectHardwareResponse ==
    /\ CanLock("injected_responses")
    /\ Len(injected_responses) + Len(hardware_responses) < MaxInjected
    /\ \E e \in InjectedEvents :
          injected_responses' = inject_hardware_response(injected_responses, e[1], e[2])
    /\ step' = Returned("inject_hardware_response", "Ok")
    /\ UNCHANGED <<devices, sim_client, mapping_engine, locks, pc,
                   hardware_responses, hardware_actions>>
    /\ UNCHANGED <<event_rx, notCoreVars>>

\* a read: it returns get_devices(devices) and changes nothing
GetDevices ==
    /\ CanLock("devices")
    /\ get_devices(devices) \in Seq([name : STRING, board_type : STRING])
    /\ UNCHANGED coreVars
    /\ UNCHANGED <<event_rx, notCoreVars>>

\* a read: it returns core_get_all_variables(sim_client) and changes nothing
GetAllVariables ==
    /\ CanLock("sim_client")
    /\ ~Poisoned("sim_client")
    /\ DOMAIN core_get_all_variables(sim_client) \subseteq STRING
    /\ UNCHANGED coreVars
    /\ UNCHANGED <<event_rx, notCoreVars>>

\* --- the loop of run, one action per lock it takes
\* collect_hardware_events, lines 99-104
CollectInjected ==
    /\ pc = "collect"
    /\ LET out == take_injected(<<>>, injected_responses)
       IN  /\ hardware_responses' = out.hardware_responses
           /\ injected_responses' = out.injected
    /\ pc' = "poll_devices"
    /\ step' = LoopStep("collect_injected")
    /\ UNCHANGED <<devices, sim_client, mapping_engine, locks, hardware_actions>>
    /\ UNCHANGED <<event_rx, notCoreVars>>

\* history: what was pending on a device and what poll_events gave
Polled(out) == [lines |-> out.lines, available |-> out.available, events |-> out.responses]

\* the devices and the responses after the loop over the devices
PollApplied(out) ==
    /\ devices' = out.devices
    /\ hardware_responses' = out.hardware_responses

\* collect_hardware_events, lines 106-114
PollDevices ==
    /\ pc = "poll_devices"
    /\ \E lines \in [1..Len(devices) -> SerialLines] :
          /\ PollApplied(poll_devices_loop(devices, hardware_responses, 1, lines))
          \* history: per device, what was pending and what it gave
          /\ step' = LoopStep("poll_devices")
                        @@ [polled |-> [i \in 1..Len(devices) |->
                               Polled(PollTable[devices[i], lines[i]])]]
    /\ pc' = "sync"
    /\ UNCHANGED <<sim_client, mapping_engine, injected_responses, locks,
                   hardware_actions>>
    /\ UNCHANGED <<event_rx, notCoreVars>>

\* mutant: the guard of the connector is dropped after the poll
SyncPoll_unlock_after_poll ==
    /\ pc = "sync"
    /\ locks.sim_client = Free
    /\ IF IsSome(sim_client)
       THEN \E io_ok \in BOOLEAN, body \in CoreBodies, queue \in CoreQueues :
               \E out \in poll(Unwrap(sim_client), io_ok, body, queue) :
                  /\ sim_client' = Some(out.client)
                  /\ step' = Returned("poll", out.result)
                  /\ pc' = "outputs"
                  /\ UNCHANGED <<hardware_responses, locks>>
       ELSE /\ pc' = "apply"
            /\ step' = LoopStep("no_client") @@ [discarded |-> hardware_responses]
            /\ hardware_responses' = <<>>
            /\ UNCHANGED <<sim_client, locks>>
    /\ hardware_actions' = <<>>
    /\ UNCHANGED <<devices, mapping_engine, injected_responses>>
    /\ UNCHANGED <<event_rx, notCoreVars>>

\* mutant: without a connector the collected events go back to the queue
SyncPoll_requeue ==
    /\ pc = "sync"
    /\ locks.sim_client = Free
    /\ IF IsSome(sim_client)
       THEN \E io_ok \in BOOLEAN, body \in CoreBodies, queue \in CoreQueues :
               \E out \in poll(Unwrap(sim_client), io_ok, body, queue) :
                  /\ sim_client' = Some(out.client)
                  /\ step' = Returned("poll", out.result)
                  /\ locks' = [locks EXCEPT !.sim_client = "run"]
                  /\ pc' = "outputs"
                  /\ UNCHANGED <<hardware_responses, injected_responses>>
       ELSE /\ pc' = "apply"
            /\ step' = LoopStep("no_client") @@ [discarded |-> <<>>]
            /\ hardware_responses' = <<>>
            /\ injected_responses' = hardware_responses \o injected_responses
            /\ UNCHANGED <<sim_client, locks>>
    /\ hardware_actions' = <<>>
    /\ UNCHANGED <<devices, mapping_engine>>
    /\ UNCHANGED <<event_rx, notCoreVars>>

\* process_simulation_sync, lines 121-125
SyncPoll ==
    /\ pc = "sync"
    /\ locks.sim_client = Free
    /\ IF IsSome(sim_client)
       THEN \E io_ok \in BOOLEAN, body \in CoreBodies, queue \in CoreQueues :
               \E out \in poll(Unwrap(sim_client), io_ok, body, queue) :
                  /\ sim_client' = Some(out.client)
                  /\ step' = Returned("poll", out.result)
                  /\ locks' = [locks EXCEPT !.sim_client = "run"]
                  /\ pc' = "outputs"
                  /\ UNCHANGED hardware_responses
       ELSE /\ pc' = "apply"
            /\ step' = LoopStep("no_client") @@ [discarded |-> hardware_responses]
            /\ hardware_responses' = <<>>
            /\ UNCHANGED <<sim_client, locks>>
    /\ hardware_actions' = <<>>
    /\ UNCHANGED <<devices, mapping_engine, injected_responses>>
    /\ UNCHANGED <<event_rx, notCoreVars>>

\* mutant: the guard of the mapping engine is dropped after process_outputs
SyncOutputs_no_engine_guard ==
    /\ pc = "outputs"
    /\ locks.mapping_engine = Free
    /\ IF IsSome(mapping_engine)
       THEN /\ hardware_actions' =
                  process_outputs(Unwrap(mapping_engine),
                                  get_all_variables(Unwrap(sim_client)))
            /\ UNCHANGED locks
            /\ pc' = "inputs"
            /\ step' = LoopStep("process_outputs")
            /\ UNCHANGED hardware_responses
       ELSE /\ locks' = [locks EXCEPT !.sim_client = Free]
            /\ pc' = "apply"
            /\ step' = LoopStep("no_engine") @@ [discarded |-> hardware_responses]
            /\ hardware_responses' = <<>>
            /\ UNCHANGED hardware_actions
    /\ UNCHANGED <<devices, sim_client, mapping_engine, injected_responses>>
    /\ UNCHANGED <<event_rx, notCoreVars>>

\* process_simulation_sync, lines 127-131
SyncOutputs ==
    /\ pc = "outputs"
    /\ locks.mapping_engine = Free
    /\ IF IsSome(mapping_engine)
       THEN /\ hardware_actions' =
                  process_outputs(Unwrap(mapping_engine),
                                  get_all_variables(Unwrap(sim_client)))
            /\ locks' = [locks EXCEPT !.mapping_engine = "run"]
            /\ pc' = "inputs"
            /\ step' = LoopStep("process_outputs")
            /\ UNCHANGED hardware_responses
       ELSE /\ locks' = [locks EXCEPT !.sim_client = Free]
            /\ pc' = "apply"
            /\ step' = LoopStep("no_engine") @@ [discarded |-> hardware_responses]
            /\ hardware_responses' = <<>>
            /\ UNCHANGED hardware_actions
    /\ UNCHANGED <<devices, sim_client, mapping_engine, injected_responses>>
    /\ UNCHANGED <<event_rx, notCoreVars>>

\* process_simulation_sync, lines 134-159: one pass of the loop over the
\* hardware responses
SyncInput ==
    /\ pc = "inputs"
    /\ hardware_responses # <<>>
    /\ LET resp == Head(hardware_responses)[2]
           events == input_events(Head(hardware_responses)[1], resp)
           b == broadcast_all(event_rx, events)
           sim_actions == IF b.result = "Panic" THEN <<>>
                          ELSE process_inputs(Unwrap(mapping_engine), resp)
       IN  \E failing \in SUBSET (1..Len(sim_actions)) :
              LET out == dispatch_loop(Unwrap(sim_client), sim_actions, 1, failing, <<>>)
                  panicked == b.result = "Panic" \/ out.panicked
              IN  /\ sim_client' = Some(out.client)
                  /\ step' = [op |-> "process_inputs",
                              result |-> IF panicked THEN "Panic"
                                         ELSE IF failing # {} THEN "Err" ELSE "Ok",
                              resp |-> resp, dispatched |-> out.log,
                              events |-> events, delivered |-> b.delivered]
                  /\ IF panicked
                     THEN /\ pc' = "panicked"
                          /\ locks' = [locks EXCEPT !.sim_client = "poisoned",
                                                    !.mapping_engine = "poisoned"]
                          /\ hardware_responses' = <<>>
                          /\ hardware_actions' = <<>>
                     ELSE /\ pc' = "inputs"
                          /\ hardware_responses' = Tail(hardware_responses)
                          /\ UNCHANGED <<locks, hardware_actions>>
    /\ UNCHANGED <<devices, mapping_engine, injected_responses>>
    /\ UNCHANGED <<event_rx, notCoreVars>>

\* mutant: the guard of the mapping engine outlives process_simulation_sync
SyncReturn_keep_engine_guard ==
    /\ pc = "inputs"
    /\ hardware_responses = <<>>
    /\ locks' = [locks EXCEPT !.sim_client = Free]
    /\ pc' = "apply"
    /\ step' = LoopStep("sync_return")
    /\ UNCHANGED <<devices, sim_client, mapping_engine, injected_responses,
                   hardware_responses, hardware_actions>>
    /\ UNCHANGED <<event_rx, notCoreVars>>

\* process_simulation_sync, lines 160-163: the guards are dropped
SyncReturn ==
    /\ pc = "inputs"
    /\ hardware_responses = <<>>
    /\ locks' = [locks EXCEPT !.sim_client = Free, !.mapping_engine = Free]
    /\ pc' = "apply"
    /\ step' = LoopStep("sync_return")
    /\ UNCHANGED <<devices, sim_client, mapping_engine, injected_responses,
                   hardware_responses, hardware_actions>>
    /\ UNCHANGED <<event_rx, notCoreVars>>

\* apply_hardware_outputs
ApplyHardwareOutputs ==
    /\ pc = "apply"
    /\ locks.devices = Free
    /\ \E failing \in SUBSET (1..Len(hardware_actions)) :
          step' = [op |-> "apply_hardware_outputs",
                   result |-> IF failing # {} THEN "Err" ELSE "Ok",
                   planned |-> hardware_actions,
                   applied |-> apply_loop(devices, hardware_actions, 1, failing, <<>>)]
    /\ hardware_actions' = <<>>
    /\ pc' = "sleep"
    /\ UNCHANGED <<devices, sim_client, mapping_engine, injected_responses, locks,
                   hardware_responses>>
    /\ UNCHANGED <<event_rx, notCoreVars>>

\* run, line 94: the sleep ends and the loop starts over
Sleep ==
    /\ pc = "sleep"
    /\ pc' = "collect"
    /\ step' = LoopStep("sleep")
    /\ UNCHANGED <<devices, sim_client, mapping_engine, injected_responses, locks,
                   hardware_responses, hardware_actions>>
    /\ UNCHANGED <<event_rx, notCoreVars>>

\* the owner of the receiver that Core::new returned drops it
DropReceiver ==
    /\ event_rx = "open"
    /\ event_rx' = "dropped"
    /\ step' = [op |-> "drop_receiver", result |-> "Ok"]
    /\ UNCHANGED <<devices, sim_client, mapping_engine, injected_responses, locks,
                   pc, hardware_responses, hardware_actions>>
    /\ UNCHANGED notCoreVars

CoreNext ==
    \/ LoadConfig \/ SetSimClient \/ DisconnectSim \/ ScanDevices
    \/ InjectHardwareResponse \/ GetDevices \/ GetAllVariables \/ DropReceiver
    \/ CollectInjected \/ PollDevices \/ SyncPoll \/ SyncOutputs \/ SyncInput
    \/ SyncReturn \/ ApplyHardwareOutputs \/ Sleep

(***************************************************************************)
(* The protocol harness: a command and a line are drawn; the command is    *)
(* serialized and what it gives is parsed, the line is parsed, and the     *)
(* line is polled from a device on whose serial line it is pending.        *)
(***************************************************************************)
\* the most characters of a String argument of a command
MaxName == 2
\* the most fields behind the id of a line
MaxArgs == 4

NameChars == {"a", ",", ";", " "}
RECURSIVE StringsUpTo(_, _)
StringsUpTo(chars, n) ==
    IF n = 0 THEN {""}
    ELSE {""} \cup { c \o s : c \in chars, s \in StringsUpTo(chars, n - 1) }
Names == StringsUpTo(NameChars, MaxName)
Commands ==
    { Command_Init, GetInfo, GetName, GetVersion, ResetBoard, SetRGB(0, 255, 0, 7) }
        \cup { SetName(n) : n \in Names }
        \cup { SetPin(p, v) : p \in {0, 13}, v \in {1, 255} }
        \cup { Set7Segment(0, 1, n) : n \in Names }
        \cup { SetLCD(1, 0, n) : n \in Names }
        \cup { SetStepper(2, s) : s \in {-120, 0, 5} }

\* lines: a first field, up to MaxArgs fields behind it, and an ending
LineHeads == {"7", "11", "12", "0", "255", "256", "+5", "-1", "007", "x", ""}
RECURSIVE LineBodies(_)
LineBodies(n) ==
    IF n = 0 THEN {""}
    ELSE {""} \cup { "," \o f \o b : f \in {"a", ""}, b \in LineBodies(n - 1) }
LineEndings == {"", ";", ";;", ";\r\n", "\n", " ;"}
Lines ==
    { h \o b \o e : h \in LineHeads, b \in LineBodies(MaxArgs), e \in LineEndings }

ProtoDevice == Device("COM1", "Panel", "Mega", "SN1", "1.0")

ProtoInit ==
    /\ \/ pr_cmd \in Commands /\ pr_line = ""
       \/ pr_cmd = GetInfo /\ pr_line \in Lines
    /\ pr_pc = "ready"
    /\ pr_wire = ""
    /\ pr_resp = None
    /\ pr_events = <<>>
    /\ pr_dev = None

ProtoIdle ==
    /\ pr_cmd = GetInfo
    /\ pr_line = ""
    /\ pr_pc = "idle"
    /\ pr_wire = ""
    /\ pr_resp = None
    /\ pr_events = <<>>
    /\ pr_dev = None

CallSerialize ==
    /\ pr_pc = "ready"
    /\ pr_wire' = Command_serialize(pr_cmd)
    /\ pr_pc' = "serialized"
    /\ UNCHANGED <<pr_cmd, pr_line, pr_resp, pr_events, pr_dev>>
    /\ UNCHANGED notProtoVars

CallParseSerialized ==
    /\ pr_pc = "serialized"
    /\ pr_resp' = Response_parse(pr_wire)
    /\ pr_pc' = "round_trip"
    /\ UNCHANGED <<pr_cmd, pr_line, pr_wire, pr_events, pr_dev>>
    /\ UNCHANGED notProtoVars

CallParse ==
    /\ pr_pc = "ready"
    /\ pr_resp' = Response_parse(pr_line)
    /\ pr_pc' = "parsed"
    /\ UNCHANGED <<pr_cmd, pr_line, pr_wire, pr_events, pr_dev>>
    /\ UNCHANGED notProtoVars

CallPollEvents ==
    /\ pr_pc = "ready"
    /\ pr_events' = poll_events(ProtoDevice, TRUE, <<pr_line>>).responses
    /\ pr_pc' = "polled"
    /\ UNCHANGED <<pr_cmd, pr_line, pr_wire, pr_resp, pr_dev>>
    /\ UNCHANGED notProtoVars

\* update_info of a device that holds an identity; the board answers with
\* the line
CallUpdateInfo ==
    /\ pr_pc = "ready"
    /\ \E io_ok \in BOOLEAN :
          pr_dev' = Some(update_info(ProtoDevice, io_ok, pr_line) @@ [io_ok |-> io_ok])
    /\ pr_pc' = "identified"
    /\ UNCHANGED <<pr_cmd, pr_line, pr_wire, pr_resp, pr_events>>
    /\ UNCHANGED notProtoVars

\* MobiFlightDevice::new on a port whose board answers with the line
CallNew ==
    /\ pr_pc = "ready"
    /\ \E open_ok \in BOOLEAN, io_ok \in BOOLEAN :
          pr_dev' = Some([opened |-> MobiFlightDevice_new("COM1", open_ok, io_ok, pr_line),
                          open_ok |-> open_ok, io_ok |-> io_ok])
    /\ pr_pc' = "opened"
    /\ UNCHANGED <<pr_cmd, pr_line, pr_wire, pr_resp, pr_events>>
    /\ UNCHANGED notProtoVars

ProtoNext ==
    \/ CallSerialize
    \/ CallParseSerialized
    \/ CallParse
    \/ CallPollEvents
    \/ CallUpdateInfo
    \/ CallNew

(***************************************************************************)
(* Specifications                                                          *)
(***************************************************************************)
(***************************************************************************)
(* The threads of the orchestrator.  The loop of run and the callers of    *)
(* Core's methods run concurrently; what orders them is the four mutexes   *)
(* of Core.  A thread is at an instruction of the program of its           *)
(* operation; the programs hold the lock and unlock points of lib.rs (a    *)
(* guard is dropped at the end of its block) and what is done to the       *)
(* injected queue and to the connector slot while the lock is held, which  *)
(* other threads see when the lock is released.                            *)
(***************************************************************************)
\* the most calls of inject_hardware_response of one caller
MaxInject == 2
Callers == {"c1", "c2"}
Parties == {"run"} \cup Callers
LockNames == {"devices", "sim_client", "mapping_engine", "injected_responses"}

Lock(l) == [do |-> "lock", lock |-> l]
Unlock(l, effect) == [do |-> "unlock", lock |-> l, effect |-> effect]
\* a jump to instruction k taken when the condition does not hold
Unless(cond, k) == [do |-> "unless", cond |-> cond, else |-> k]
\* a call followed by `?`, made before any lock is asked for: on Err the
\* operation returns
Try(call) == [do |-> "try", call |-> call]

\* pub async fn run: one pass of the loop
RunProgram ==
    << Lock("injected_responses"),                  \* lib.rs:102
       Unlock("injected_responses", "append"),      \* lib.rs:103-104
       Lock("devices"),                             \* lib.rs:107
       Unlock("devices", "none"),                   \* lib.rs:108-114
       Lock("sim_client"),                          \* lib.rs:122
       Unless("client", 11),                        \* lib.rs:124
       [do |-> "poll"],                             \* lib.rs:125
       Lock("mapping_engine"),                      \* lib.rs:127
       [do |-> "dispatch"],                         \* lib.rs:128-159
       Unlock("mapping_engine", "none"),            \* lib.rs:160
       Unlock("sim_client", "drop_responses"),      \* lib.rs:161-163
       Unless("actions", 15),                       \* lib.rs:166
       Lock("devices"),                             \* lib.rs:167
       Unlock("devices", "drop_actions"),           \* lib.rs:168-197
       [do |-> "sleep"] >>                          \* lib.rs:94

\* mutant: load_config takes the connector lock inside the engine lock
lock_plan_engine_first(op) ==
    CASE op = "run" -> RunProgram
      [] op = "load_config" ->
            << Try("MobiFlightProject::load"),
               Lock("mapping_engine"), Lock("sim_client"),
               Unlock("sim_client", "none"), Unlock("mapping_engine", "none") >>
      [] op = "set_sim_client" ->
            << Try("connect"), Lock("sim_client"), Unlock("sim_client", "set_client") >>
      [] op = "disconnect_sim" -> << Lock("sim_client"), Unlock("sim_client", "take_client") >>
      [] op = "scan_devices" ->
            << Try("MobiFlightDevice::scan"), Lock("devices"), Unlock("devices", "none") >>
      [] op = "get_devices" -> << Lock("devices"), Unlock("devices", "none") >>
      [] op = "get_all_variables" ->
            << Lock("sim_client"), Unlock("sim_client", "read_client") >>
      [] op = "inject_hardware_response" ->
            << Lock("injected_responses"), Unlock("injected_responses", "push") >>

\* the lock and unlock points of each operation, after the call that makes
\* it return early: load_config parses (line 47), set_sim_client connects
\* (line 57) and scan_devices lists the ports (line 72) before the lock
lock_plan(op) ==
    CASE op = "run" -> RunProgram
      [] op = "load_config" ->                                  \* lib.rs:47-50
            << Try("MobiFlightProject::load"),
               Lock("mapping_engine"), Unlock("mapping_engine", "none") >>
      [] op = "set_sim_client" ->                               \* lib.rs:57-60
            << Try("connect"), Lock("sim_client"), Unlock("sim_client", "set_client") >>
      [] op = "disconnect_sim" ->                               \* lib.rs:64-67
            << Lock("sim_client"), Unlock("sim_client", "take_client") >>
      [] op = "scan_devices" ->                                 \* lib.rs:72-85
            << Try("MobiFlightDevice::scan"), Lock("devices"), Unlock("devices", "none") >>
      [] op = "get_devices" ->                                  \* lib.rs:205-209
            << Lock("devices"), Unlock("devices", "none") >>
      [] op = "get_all_variables" ->                            \* lib.rs:213-218
            << Lock("sim_client"), Unlock("sim_client", "read_client") >>
      [] op = "inject_hardware_response" ->
            << Lock("injected_responses"), Unlock("injected_responses", "push") >>
CallerOps ==
    {"load_config", "set_sim_client", "disconnect_sim", "scan_devices", "get_devices",
     "get_all_variables", "inject_hardware_response"}

Idle == [op |-> "idle", pc |-> 0]
Panicked == [op |-> "panicked", pc |-> 0]
At(op, i) == [op |-> op, pc |-> i]
Active(p) == th_at[p].op \notin {"idle", "panicked"}
\* the instruction a thread is at
Instr(p) == lock_plan(th_at[p].op)[th_at[p].pc]
\* the thread after the instruction it is at: a caller's operation returns
\* after its last instruction
Advance(p) ==
    IF th_at[p].pc < Len(lock_plan(th_at[p].op))
    THEN At(th_at[p].op, th_at[p].pc + 1)
    ELSE Idle
Held(p) == { l \in LockNames : th_owner[l] = p }

ThInit ==
    /\ th_at = [p \in Parties |-> IF p = "run" THEN At("run", 1) ELSE Idle]
    /\ th_owner = [l \in LockNames |-> "free"]
    /\ th_poisoned = {}
    /\ th_client = FALSE
    /\ th_queue = <<>>
    /\ th_local = <<>>
    /\ th_actions = FALSE
    /\ th_count = [c \in Callers |-> 0]
    /\ th_seen = [c \in Callers |-> 0]

ThreadsIdle ==
    /\ th_at = [p \in Parties |-> Idle]
    /\ th_owner = [l \in LockNames |-> "free"]
    /\ th_poisoned = {}
    /\ th_client = FALSE
    /\ th_queue = <<>>
    /\ th_local = <<>>
    /\ th_actions = FALSE
    /\ th_count = [c \in Callers |-> 0]
    /\ th_seen = [c \in Callers |-> 0]

\* the greatest number of an event of caller c in a sequence of events, or n
RECURSIVE LastOf(_, _, _)
LastOf(events, c, n) ==
    IF events = <<>> THEN n
    ELSE LastOf(Tail(events), c, IF Head(events)[1] = c THEN Head(events)[2] ELSE n)

\* a caller starts an operation; an injected event is named by its caller
\* and the number of the call
ThCall(c) ==
    /\ th_at[c] = Idle
    /\ \E op \in CallerOps :
          /\ op = "inject_hardware_response" => th_count[c] < MaxInject
          /\ th_at' = [th_at EXCEPT ![c] = At(op, 1)]
          /\ th_count' = IF op = "inject_hardware_response"
                         THEN [th_count EXCEPT ![c] = @ + 1] ELSE th_count
    /\ UNCHANGED <<th_owner, th_poisoned, th_client, th_queue, th_local, th_actions, th_seen>>
    /\ UNCHANGED notThreadVars

\* the call before the lock: Ok, and the operation goes on to the lock, or
\* Err, and `?` returns it: no lock is asked for and nothing is installed
ThTry(p) ==
    /\ Active(p)
    /\ Instr(p).do = "try"
    /\ \/ th_at' = [th_at EXCEPT ![p] = Advance(p)]
       \/ th_at' = [th_at EXCEPT ![p] = Idle]
    /\ UNCHANGED <<th_owner, th_poisoned, th_client, th_queue, th_local, th_actions,
                   th_count, th_seen>>
    /\ UNCHANGED notThreadVars

\* `.lock()` on a mutex that is free and not poisoned
ThLock(p) ==
    /\ Active(p)
    /\ Instr(p).do = "lock"
    /\ th_owner[Instr(p).lock] = "free"
    /\ Instr(p).lock \notin th_poisoned
    /\ th_owner' = [th_owner EXCEPT ![Instr(p).lock] = p]
    /\ th_at' = [th_at EXCEPT ![p] = Advance(p)]
    /\ UNCHANGED <<th_poisoned, th_client, th_queue, th_local, th_actions, th_count,
                   th_seen>>
    /\ UNCHANGED notThreadVars

\* `.lock().unwrap()` on a poisoned mutex: the thread panics and the guards
\* it holds are dropped, poisoning their mutexes; the unwinding of the loop
\* drops the responses and the actions the tick has in hand
ThLockPoisoned(p) ==
    /\ Active(p)
    /\ Instr(p).do = "lock"
    /\ th_owner[Instr(p).lock] = "free"
    /\ Instr(p).lock \in th_poisoned
    /\ th_owner' = [l \in LockNames |-> IF th_owner[l] = p THEN "free" ELSE th_owner[l]]
    /\ th_poisoned' = th_poisoned \cup Held(p)
    /\ th_at' = [th_at EXCEPT ![p] = IF p = "run" THEN Panicked ELSE Idle]
    /\ th_local' = IF p = "run" THEN <<>> ELSE th_local
    /\ th_actions' = IF p = "run" THEN FALSE ELSE th_actions
    /\ UNCHANGED <<th_client, th_queue, th_count, th_seen>>
    /\ UNCHANGED notThreadVars

\* a caller's call of the connector in the slot, under the guard of the
\* connector: `client.disconnect()` after `sim.take()` (lines 65-66) and
\* `client.get_all_variables()` (line 215).  The connector is any
\* implementor of SimClient; when its method panics the caller's thread
\* unwinds and the guard it drops poisons the mutex
ThPanic(p) ==
    /\ Active(p)
    /\ Instr(p).do = "unlock"
    /\ Instr(p).effect \in {"take_client", "read_client"}
    /\ th_client
    /\ th_owner' = [l \in LockNames |-> IF th_owner[l] = p THEN "free" ELSE th_owner[l]]
    /\ th_poisoned' = th_poisoned \cup Held(p)
    /\ th_at' = [th_at EXCEPT ![p] = Idle]
    /\ th_client' = IF Instr(p).effect = "take_client" THEN FALSE ELSE th_client
    /\ UNCHANGED <<th_queue, th_local, th_actions, th_count, th_seen>>
    /\ UNCHANGED notThreadVars

\* a guard is dropped; what was done under it becomes visible
ThUnlock(p) ==
    /\ Active(p)
    /\ Instr(p).do = "unlock"
    /\ th_owner' = [th_owner EXCEPT ![Instr(p).lock] = "free"]
    /\ th_at' = [th_at EXCEPT ![p] = Advance(p)]
    /\ CASE Instr(p).effect = "append" ->
                \* hardware_responses.append(&mut *injected)
                /\ th_local' = take_injected(<<>>, th_queue).hardware_responses
                /\ th_queue' = take_injected(<<>>, th_queue).injected
                /\ th_seen' = [c \in Callers |-> LastOf(th_queue, c, th_seen[c])]
                /\ UNCHANGED th_client
         [] Instr(p).effect = "push" ->
                \* injected.push((dev_name.to_string(), resp))
                /\ th_queue' = inject_hardware_response(th_queue, p, th_count[p])
                /\ UNCHANGED <<th_client, th_local, th_seen>>
         [] Instr(p).effect = "set_client" ->
                /\ th_client' = TRUE
                /\ UNCHANGED <<th_queue, th_local, th_seen>>
         [] Instr(p).effect = "take_client" ->
                /\ th_client' = FALSE
                /\ UNCHANGED <<th_queue, th_local, th_seen>>
         [] Instr(p).effect = "drop_responses" ->
                \* the vector moved into process_simulation_sync is dropped
                /\ th_local' = <<>>
                /\ UNCHANGED <<th_client, th_queue, th_seen>>
         [] OTHER -> UNCHANGED <<th_client, th_queue, th_local, th_seen>>
    \* the loop over the actions consumes the vector
    /\ th_actions' = IF Instr(p).effect = "drop_actions" THEN FALSE ELSE th_actions
    /\ UNCHANGED <<th_poisoned, th_count>>
    /\ UNCHANGED notThreadVars

\* `if let Some(client)`: whether a connector is installed, seen under the
\* guard taken at line 122; hardware_actions is still the empty vector of
\* line 121.  `if !hardware_actions.is_empty()`: decided by the vector that
\* process_simulation_sync returned, whatever happened to the connector since
ThBranch(p) ==
    /\ Active(p)
    /\ Instr(p).do = "unless"
    /\ th_at' = [th_at EXCEPT ![p] =
                    IF (IF Instr(p).cond = "client" THEN th_client ELSE th_actions)
                    THEN Advance(p) ELSE At(th_at[p].op, Instr(p).else)]
    /\ th_actions' = IF Instr(p).cond = "client" THEN FALSE ELSE th_actions
    /\ UNCHANGED <<th_owner, th_poisoned, th_client, th_queue, th_local, th_count,
                   th_seen>>
    /\ UNCHANGED notThreadVars

\* `let _ = client.poll();` under the guard of the connector alone, before
\* the loop asks for the mapping engine; the poll of a connector may panic,
\* and the unwinding drops the guard and the collected responses
ThPoll(p) ==
    /\ Active(p)
    /\ Instr(p).do = "poll"
    /\ \/ /\ th_at' = [th_at EXCEPT ![p] = Advance(p)]
          /\ UNCHANGED <<th_owner, th_poisoned, th_local>>
       \/ /\ th_at' = [th_at EXCEPT ![p] = Panicked]
          /\ th_owner' = [l \in LockNames |-> IF th_owner[l] = p THEN "free" ELSE th_owner[l]]
          /\ th_poisoned' = th_poisoned \cup Held(p)
          /\ th_local' = <<>>
    /\ UNCHANGED <<th_client, th_queue, th_actions, th_count, th_seen>>
    /\ UNCHANGED notThreadVars

\* process_outputs and the loop over the responses, under both guards; a
\* connector call may panic, and the unwinding drops the guards
ThDispatch(p) ==
    /\ Active(p)
    /\ Instr(p).do = "dispatch"
    /\ \/ /\ th_at' = [th_at EXCEPT ![p] = Advance(p)]
          \* hardware_actions = engine.process_outputs(&data): whether there
          \* are actions depends on the configuration and the snapshot
          /\ th_actions' \in BOOLEAN
          /\ UNCHANGED <<th_owner, th_poisoned, th_local>>
       \/ /\ th_at' = [th_at EXCEPT ![p] = Panicked]
          /\ th_owner' = [l \in LockNames |-> IF th_owner[l] = p THEN "free" ELSE th_owner[l]]
          /\ th_poisoned' = th_poisoned \cup Held(p)
          /\ th_local' = <<>>
          /\ th_actions' = FALSE
    /\ UNCHANGED <<th_client, th_queue, th_count, th_seen>>
    /\ UNCHANGED notThreadVars

\* tokio::time::sleep(..).await, then the next pass of the loop
ThSleep(p) ==
    /\ Active(p)
    /\ Instr(p).do = "sleep"
    /\ th_at' = [th_at EXCEPT ![p] = At(th_at[p].op, 1)]
    /\ UNCHANGED <<th_owner, th_poisoned, th_client, th_queue, th_local, th_actions,
                   th_count, th_seen>>
    /\ UNCHANGED notThreadVars

ThNext ==
    \/ \E c \in Callers : ThCall(c)
    \/ \E c \in Callers : ThTry(c)
    \/ \E p \in Parties : ThLock(p)
    \/ \E p \in Parties : ThLockPoisoned(p)
    \/ \E c \in Callers : ThPanic(c)
    \/ \E p \in Parties : ThUnlock(p)
    \/ \E p \in Parties : ThBranch(p)
    \/ \E p \in Parties : ThPoll(p)
    \/ \E p \in Parties : ThDispatch(p)
    \/ \E p \in Parties : ThSleep(p)

MappingInit == EngInit /\ CmpIdle /\ ConnIdle /\ CoreIdle /\ ProtoIdle /\ ThreadsIdle
MappingNext ==
    \/ CallProcessOutputs /\ UNCHANGED <<cmpVars, connVars, coreVars, protoVars, threadVars>>
    \/ CallProcessInputs /\ UNCHANGED <<cmpVars, connVars, coreVars, protoVars, threadVars>>
SpecMapping == MappingInit /\ [][MappingNext]_vars

ComparisonInit == CmpInit /\ EngIdle /\ ConnIdle /\ CoreIdle /\ ProtoIdle /\ ThreadsIdle
ComparisonNext ==
    CallApplyComparison /\ UNCHANGED <<engVars, connVars, coreVars, protoVars, threadVars>>
SpecComparison == ComparisonInit /\ [][ComparisonNext]_vars

ConnectorInit == ConnInit /\ EngIdle /\ CmpIdle /\ CoreIdle /\ ProtoIdle /\ ThreadsIdle
ConnectorNext == ConnNext
SpecConnector == ConnectorInit /\ [][ConnectorNext]_vars

OrchestratorInit == CoreInit /\ EngIdle /\ CmpIdle /\ ConnIdle /\ ProtoIdle /\ ThreadsIdle
OrchestratorNext == CoreNext
SpecCore == OrchestratorInit /\ [][OrchestratorNext]_vars

ProtocolInit == ProtoInit /\ EngIdle /\ CmpIdle /\ ConnIdle /\ CoreIdle /\ ThreadsIdle
ProtocolNext == ProtoNext
SpecProtocol == ProtocolInit /\ [][ProtocolNext]_vars

ThreadsInit == ThInit /\ EngIdle /\ CmpIdle /\ ConnIdle /\ CoreIdle /\ ProtoIdle
ThreadsNext == ThNext
SpecThreads == ThreadsInit /\ [][ThreadsNext]_vars
\* a step of the loop other than taking a lock
RunStep ==
    ThUnlock("run") \/ ThBranch("run") \/ ThPoll("run") \/ ThDispatch("run") \/ ThSleep("run")
\* The task of the loop is scheduled: the loop takes the step it is at, and
\* it gets a lock that stays free.  A std::sync::Mutex promises no more: a
\* lock that others take again and again need never come to the loop.
ThreadsFairness == WF_vars(RunStep \/ ThLock("run"))
SpecThreadsFair == SpecThreads /\ ThreadsFairness

(***************************************************************************)
(* Claims                                                                  *)
(***************************************************************************)
ActiveOnly(configs) == SelectSeq(configs, LAMBDA c : c.active)
Enabled(config) == [config EXCEPT !.active = TRUE]

\* C1: a disabled rule never produces an action.  process_outputs returns
\* what it returns on the configuration without its disabled output rules,
\* and no more actions than there are enabled output rules; process_inputs
\* returns what it returns on the configuration without its disabled input
\* rules, whatever the snapshot and the event.
C1_DisabledRulesEmitNothing ==
    /\ eng_pc \in {"outputs", "inputs"} =>
          /\ eng_hw = process_outputs(
                         [eng_project EXCEPT !.outputs = ActiveOnly(@)], eng_data)
          /\ Len(eng_hw) <= Len(ActiveOnly(eng_project.outputs))
    /\ eng_pc = "inputs" =>
          /\ eng_sim = process_inputs(
                         [eng_project EXCEPT !.inputs = ActiveOnly(@)], eng_resp)
          /\ (\A i \in 1..Len(eng_project.inputs) : ~eng_project.inputs[i].active)
                => eng_sim = <<>>

\* C1 witness: both functions have run on a configuration that holds a
\* disabled output rule and a disabled input rule, each of which would have
\* produced an action on this snapshot and this event had it been enabled.
C1_Witness ==
    /\ eng_pc = "inputs"
    /\ \E i \in 1..Len(eng_project.outputs) :
          /\ ~eng_project.outputs[i].active
          /\ output_rule_actions(Enabled(eng_project.outputs[i]), eng_data) # <<>>
    /\ \E i \in 1..Len(eng_project.inputs) :
          /\ ~eng_project.inputs[i].active
          /\ eng_resp.kind = "InputEvent"
          /\ input_rule_actions(Enabled(eng_project.inputs[i]),
                                eng_resp.name, eng_resp.value) # <<>>
    /\ eng_hw = <<>>
    /\ eng_sim = <<>>

\* the mathematical relation named by an operand
MathRelation(op, v, t) ==
    CASE op = ">" -> NumGt(v, t)
      [] op = "<" -> NumLt(v, t)
      [] op \in {"=", "=="} -> v = t
      [] op = ">=" -> NumGe(v, t)
      [] op = "<=" -> NumLe(v, t)
      [] op = "!=" -> v # t
\* the relation with the tolerance of mapping.rs: equality is "closer than
\* f64::EPSILON", inequality is "farther than f64::EPSILON"
ToleranceRelation(op, v, t) ==
    CASE op \in {"=", "=="} -> (v[1] = t[1] /\ Abs(v[2] - t[2]) < EPSILON)
      [] op = "!=" -> (v[1] # t[1] \/ Abs(v[2] - t[2]) > EPSILON)
      [] OTHER -> MathRelation(op, v, t)
\* value and threshold differ by less than f64::EPSILON
WithinTolerance(v, t) == v[1] = t[1] /\ Abs(v[2] - t[2]) < EPSILON
\* value and threshold differ by f64::EPSILON exactly
AtTolerance(v, t) == v[1] = t[1] /\ Abs(v[2] - t[2]) = EPSILON
\* a literal read as a number, d standing for one that does not parse
LiteralOr(s, d) == IF IsSome(ParseF64(s)) THEN Unwrap(ParseF64(s)) ELSE d
KnownOperand == cmp_comp.operand \in {">", "<", "=", "==", ">=", "<=", "!="}
\* the values of the two branches of a comparison: lines 132 and 134
IfBranch(comp) == UnwrapOr(ParseF64(comp.if_value), Whole(1))
ElseBranch(comp) == UnwrapOr(ParseF64(comp.else_value), Whole(0))
\* the threshold of a comparison: line 120
Threshold(comp) == UnwrapOr(ParseF64(comp.value), Whole(0))

\* C10 as stated: the effective value is the if-value exactly when the
\* mathematical relation operand(value, threshold) holds, else the else-value.
C10_Original ==
    (cmp_pc = "done" /\ KnownOperand) =>
        cmp_out = IF MathRelation(cmp_comp.operand, cmp_val, Threshold(cmp_comp))
                  THEN IfBranch(cmp_comp)
                  ELSE ElseBranch(cmp_comp)

\* C10 amended: for >, <, >=, <= the effective value is the if-value exactly
\* when the mathematical relation holds, else the else-value; for = and ==
\* it is the if-value exactly when value and threshold differ by less than
\* f64::EPSILON, else the else-value; for != , wherever the difference is
\* not f64::EPSILON exactly, it is the else-value exactly when they differ
\* by less than f64::EPSILON and the if-value otherwise, the complement of
\* = .  Nothing is said of != on a difference of f64::EPSILON exactly.
C10_BranchMatchesRelationWithTolerance ==
    (cmp_pc = "done" /\ KnownOperand) =>
        CASE cmp_comp.operand \in {"=", "=="} ->
                cmp_out = IF WithinTolerance(cmp_val, Threshold(cmp_comp))
                          THEN IfBranch(cmp_comp) ELSE ElseBranch(cmp_comp)
          [] cmp_comp.operand = "!=" ->
                ~AtTolerance(cmp_val, Threshold(cmp_comp)) =>
                    cmp_out = IF WithinTolerance(cmp_val, Threshold(cmp_comp))
                              THEN ElseBranch(cmp_comp) ELSE IfBranch(cmp_comp)
          [] OTHER ->
                cmp_out = IF MathRelation(cmp_comp.operand, cmp_val, Threshold(cmp_comp))
                          THEN IfBranch(cmp_comp) ELSE ElseBranch(cmp_comp)

\* C10 witness: threshold 1000 with operand > on the value 1000 itself has
\* given the else-value.
C10_Witness ==
    /\ cmp_pc = "done"
    /\ cmp_comp = Comparison(TRUE, "1000", ">", "1", "0")
    /\ cmp_val = Whole(1000)
    /\ cmp_out = Whole(0)

Connected(c) == IF c.kind = "xplane" THEN c.socket ELSE c.connected

\* C2 as stated: every subscribe call on a connected UDP connector is
\* assigned an index strictly greater than every index assigned earlier in
\* the session, and no two distinct names of the subscription table hold the
\* same index.
C2_Original ==
    client.kind = "xplane" =>
        /\ (last.op = "subscribe" /\ last.result # "NotConnected")
              => last.index > last.prev_max
        /\ \A n1, n2 \in DOMAIN client.subscriptions :
              n1 # n2 => client.subscriptions[n1] # client.subscriptions[n2]

\* C6: a poll of the connected HTTP bridge connector whose request fails
\* (transport error or timeout), returns a non-success status or an
\* undecodable body returns ok, leaves the cached snapshot as it was and
\* leaves the connector connected.
C6_FailedPollKeepsSnapshot ==
    [][(client.kind = "msfs" /\ client.connected
          /\ last'.op = "poll" /\ last'.resp # "success")
        => /\ last'.result = "Ok"
           /\ get_all_variables(client)' = get_all_variables(client)
           /\ client'.variables = client.variables
           /\ client'.connected]_vars

\* C6 witness: a connected HTTP bridge connector that holds a snapshot has
\* just polled and the request failed in transport.
C6_Witness ==
    /\ client.kind = "msfs"
    /\ client.connected
    /\ client.variables # EmptyMap
    /\ last.op = "poll"
    /\ last.resp = "transport_error"

\* C7 as stated: for every connector variant, a poll when no new inbound
\* data has arrived leaves the snapshot of get_all_variables as it was.
C7_Original ==
    [][(last'.op = "poll" /\ last'.nonew)
        => get_all_variables(client)' = get_all_variables(client)]_vars

\* C7 amended: for the UDP and the HTTP bridge connector, and for a
\* synthetic connector that is not connected, a poll when no new inbound
\* data has arrived leaves the snapshot of get_all_variables as it was.
C7_PollWithoutNewDataKeepsSnapshot ==
    [][(last'.op = "poll" /\ last'.nonew
          /\ (client.kind = "dummy" => ~client.connected))
        => get_all_variables(client)' = get_all_variables(client)]_vars

\* C7 witness: a connected UDP connector that holds a snapshot has just
\* polled with nothing queued on its socket.
C7_Witness ==
    /\ client.kind = "xplane"
    /\ client.socket
    /\ client.cache # EmptyMap
    /\ last.op = "poll"
    /\ last.nonew

\* the records of a queue that carry the index of name n
RecordsFor(queue, subscriptions, n) ==
    SelectSeq(Received(queue), LAMBDA r : r[1] = subscriptions[n])
\* C8: a poll of the UDP connector never fails; a record whose index is the
\* index of no subscribed name changes no snapshot entry (an entry changes
\* only when a record carries its name's index); and the records after it
\* among the bytes received of the datagram, and in later datagrams, are
\* applied: a name that alone holds an index ends with the value of the last
\* record received for that index.
C8_UnknownIndexDropped ==
    [][(client.kind = "xplane" /\ client.socket /\ last'.op = "poll")
        => /\ last'.result = "Ok"
           /\ inbox' = <<>>
           /\ \A n \in (DOMAIN client'.cache) \cup (DOMAIN client.cache) :
                 (n \notin DOMAIN client.subscriptions
                    \/ RecordsFor(inbox, client.subscriptions, n) = <<>>)
                 => /\ n \in DOMAIN client.cache
                    /\ n \in DOMAIN client'.cache
                    /\ client'.cache[n] = client.cache[n]
           /\ \A n \in DOMAIN client.subscriptions :
                 LET recs == RecordsFor(inbox, client.subscriptions, n)
                 IN  (recs # <<>>
                        /\ names_of_index(client.subscriptions,
                                          client.subscriptions[n]) = {n})
                     => /\ n \in DOMAIN client'.cache
                        /\ client'.cache[n] = recs[Len(recs)][2]]_vars

\* C8 witness: a poll has dropped a record with an unknown index and applied
\* another record of the same queue.
C8_Witness ==
    /\ client.kind = "xplane"
    /\ last.op = "poll"
    /\ last.dropped
    /\ last.applied
    /\ client.cache # EmptyMap

\* C9 as stated: for every connector variant, get_all_variables returns the
\* empty snapshot while the connector is connected and no poll has yet
\* succeeded.
C9_Original ==
    (Connected(client) /\ ~refreshed) => get_all_variables(client) = EmptyMap


\* C3: a set_sim_client whose connect fails returns the error and leaves the
\* active connector (the previous one, or none) as it was; the active
\* connector changes in a set_sim_client only to the new connector after its
\* connect succeeded, so every active connector is a connected one.
C3_FailedConnectLeavesConnector ==
    /\ [][step'.op = "set_sim_client" =>
            /\ step'.result # "Ok" => sim_client' = sim_client
            /\ step'.result = "Ok" =>
                  /\ IsSome(sim_client')
                  /\ Connected(Unwrap(sim_client'))
                  /\ \E new_client \in NewClients :
                        connect(new_client, TRUE).client = Unwrap(sim_client')]_vars
    /\ [](IsSome(sim_client) => Connected(Unwrap(sim_client)))

\* C3 witness: a set_sim_client has just failed while a connector installed
\* by an earlier call is active.
C3_Witness ==
    /\ step.op = "set_sim_client"
    /\ step.result = "Err"
    /\ IsSome(sim_client)
    /\ Connected(Unwrap(sim_client))

\* the simulator actions of a response that are handed to the connector
RECURSIVE Dispatchable(_)
Dispatchable(actions) ==
    IF actions = <<>> THEN <<>>
    ELSE (CASE Head(actions).kind = "Command" ->
                  << <<"execute_command", Head(actions).cmd>> >>
            [] Head(actions).kind = "WriteDataref" ->
                  << <<"write_variable", Head(actions).dref, Head(actions).val>> >>
            [] Head(actions).kind = "None" -> <<>>)
            \o Dispatchable(Tail(actions))

\* the hardware actions that name a tracked device, each with that device
RECURSIVE Applicable(_, _)
Applicable(devs, actions) ==
    IF actions = <<>> THEN <<>>
    ELSE (IF \E k \in 1..Len(devs) : devs[k].serial = Head(actions).serial
          THEN <<[device |-> Unwrap(find_device(devs, Head(actions).serial)),
                  action |-> Head(actions)]>>
          ELSE <<>>)
            \o Applicable(devs, Tail(actions))

\* C4 as stated: no failure of the connector's poll, of a dispatched command
\* or variable write, or of a device command aborts the tick: the loop never
\* stops, every simulator action of a processed response is handed to the
\* connector, and every hardware action that names a tracked device is sent
\* to it.
C4_Original ==
    /\ pc # "panicked"
    /\ step.op = "process_inputs" =>
          step.dispatched =
              Dispatchable(process_inputs(Unwrap(mapping_engine), step.resp))
    /\ step.op = "apply_hardware_outputs" =>
          step.applied = Applicable(devices, step.planned)

\* C5: the collection step moves the whole injected queue, in order, to the
\* front of the tick's events and leaves the queue empty; the events polled
\* from the devices are put behind them; the events are then processed from
\* the front, one after the other.
C5_InjectedEventsGoFirst ==
    [][/\ (pc = "collect" /\ pc' # "collect") =>
             /\ hardware_responses' = injected_responses
             /\ injected_responses' = <<>>
       /\ (pc = "poll_devices" /\ pc' # "poll_devices") =>
             /\ Len(hardware_responses') >= Len(hardware_responses)
             /\ SubSeq(hardware_responses', 1, Len(hardware_responses)) = hardware_responses
             /\ \A k \in (Len(hardware_responses) + 1)..Len(hardware_responses') :
                   \E d \in 1..Len(devices) : hardware_responses'[k][1] = devices[d].name
       /\ (pc = "inputs" /\ hardware_responses' # hardware_responses) =>
             /\ step'.op = "process_inputs"
             /\ step'.resp = Head(hardware_responses)[2]
             /\ pc' = "inputs" => hardware_responses' = Tail(hardware_responses)]_vars

\* C5 witness: two different injected events and an event of a device have
\* been collected, in this order, and the first of them has been processed.
C5_Witness ==
    /\ pc = "inputs"
    /\ step.op = "process_inputs"
    /\ step.resp = InputEvent("Knob", "0")
    /\ injected_responses = <<>>
    /\ Len(hardware_responses) = 2
    /\ hardware_responses[1] = <<"demo", InputEvent("GearToggle", "1")>>
    /\ hardware_responses[2][1] = "Panel"


\* C11 as stated: on a comparison whose two branches give different values,
\* the operand != gives the if-branch exactly when the operand = (and ==),
\* on the same value and threshold, gives the else-branch.
C11_Original ==
    (/\ cmp_pc = "done"
     /\ cmp_comp.operand = "!="
     /\ IfBranch(cmp_comp) # ElseBranch(cmp_comp)) =>
        \A eq \in {"=", "=="} :
            (cmp_out = IfBranch(cmp_comp))
                <=> (apply_comparison(cmp_val, [cmp_comp EXCEPT !.operand = eq])
                        = ElseBranch(cmp_comp))

SomeLiteralFails ==
    \/ ~IsSome(ParseF64(cmp_comp.value))
    \/ ~IsSome(ParseF64(cmp_comp.if_value))
    \/ ~IsSome(ParseF64(cmp_comp.else_value))

\* C12 as stated: every literal of a comparison that does not parse counts
\* as 0: the threshold, the if-value and the else-value.
C12_Original ==
    (cmp_pc = "done" /\ KnownOperand /\ SomeLiteralFails) =>
        cmp_out = IF ToleranceRelation(cmp_comp.operand, cmp_val,
                                       LiteralOr(cmp_comp.value, Whole(0)))
                  THEN LiteralOr(cmp_comp.if_value, Whole(0))
                  ELSE LiteralOr(cmp_comp.else_value, Whole(0))

\* C12 amended: a threshold and an else-value that do not parse count as 0,
\* an if-value that does not parse counts as 1.
C12_UnparsableLiteralDefaults ==
    (cmp_pc = "done" /\ KnownOperand /\ SomeLiteralFails) =>
        cmp_out = IF ToleranceRelation(cmp_comp.operand, cmp_val,
                                       LiteralOr(cmp_comp.value, Whole(0)))
                  THEN LiteralOr(cmp_comp.if_value, Whole(1))
                  ELSE LiteralOr(cmp_comp.else_value, Whole(0))

\* C12 witness: the condition 1200 > 1000 held, the if-value "abc" did not
\* parse, and the effective value is 1.
C12_Witness ==
    /\ cmp_pc = "done"
    /\ cmp_comp = Comparison(TRUE, "1000", ">", "abc", "5")
    /\ cmp_val = Whole(1200)
    /\ cmp_out = Whole(1)

\* the output rules that are to produce an action on a snapshot: enabled,
\* with a source and a display, the source variable a key of the snapshot,
\* the display kind one of Pin, 7Segment, LCD
Producing(configs, data) ==
    SelectSeq(configs,
              LAMBDA c : /\ c.active
                         /\ IsSome(c.settings.source)
                         /\ IsSome(c.settings.display)
                         /\ Unwrap(c.settings.source).name \in DOMAIN data
                         /\ Unwrap(c.settings.display).display_type
                                \in {"Pin", "7Segment", "LCD"})
ActionKindOf(display_type) ==
    CASE display_type = "Pin" -> "SetPin"
      [] display_type = "7Segment" -> "Set7Segment"
      [] display_type = "LCD" -> "SetLCD"

\* C13: process_outputs returns one hardware action for each enabled output
\* rule that has a source and a display, whose source variable is a key of
\* the snapshot and whose display kind is Pin, 7Segment or LCD, of the kind
\* SetPin, Set7Segment, SetLCD respectively and for the device of the rule's
\* display, in configuration order, and no other action.
C13_OneActionPerProducingRule ==
    eng_pc \in {"outputs", "inputs"} =>
        LET rules == Producing(eng_project.outputs, eng_data)
        IN  /\ Len(eng_hw) = Len(rules)
            /\ \A k \in 1..Len(rules) :
                  /\ eng_hw[k].kind
                        = ActionKindOf(Unwrap(rules[k].settings.display).display_type)
                  /\ eng_hw[k].serial = Unwrap(rules[k].settings.display).serial

\* C13 witness: two enabled rules of different display kinds, both with
\* their source in the snapshot, have produced their two actions in the
\* order of the configuration.
C13_Witness ==
    /\ eng_pc = "outputs"
    /\ Len(eng_project.outputs) = 2
    /\ \A i \in 1..2 : IsSome(eng_project.outputs[i].settings.display)
    /\ Unwrap(eng_project.outputs[1].settings.display).display_type = "LCD"
    /\ Unwrap(eng_project.outputs[2].settings.display).display_type = "Pin"
    /\ Len(eng_hw) = 2
    /\ eng_hw[1].kind = "SetLCD"
    /\ eng_hw[2].kind = "SetPin"

\* the enabled input rules whose description is the label of an event
Matching(configs, name) ==
    SelectSeq(configs, LAMBDA c : c.active /\ c.description = name)
\* the direction an event value selects in a button and in an encoder
ButtonDirection(button, value) ==
    IF value = "1" THEN button.on_press ELSE button.on_release
EncoderDirection(encoder, value) ==
    IF value = "0" THEN encoder.on_left ELSE encoder.on_right
\* the simulator actions one matching rule contributes: that of the selected
\* direction of its button, if the rule has a button and the direction has
\* an action, then the same for its encoder
Contribution(config, value) ==
    LET s == config.settings
        b == IF IsSome(s.button) THEN ButtonDirection(Unwrap(s.button), value) ELSE None
        e == IF IsSome(s.encoder) THEN EncoderDirection(Unwrap(s.encoder), value) ELSE None
    IN  (IF IsSome(b) THEN <<create_sim_action(Unwrap(b))>> ELSE <<>>)
            \o (IF IsSome(e) THEN <<create_sim_action(Unwrap(e))>> ELSE <<>>)

\* C14: for an input event whose label matches one enabled input rule, a
\* button selects on-press exactly when the value is "1" and on-release for
\* every other value, an encoder selects on-left exactly when the value is
\* "0" and on-right for every other value, and a selected direction without
\* an action contributes nothing.
C14_DirectionSelection ==
    (/\ eng_pc = "inputs"
     /\ eng_resp.kind = "InputEvent"
     /\ Len(Matching(eng_project.inputs, eng_resp.name)) = 1) =>
        eng_sim = Contribution(Matching(eng_project.inputs, eng_resp.name)[1],
                               eng_resp.value)

\* C14 witness: the rule GearToggle with only on-press defined, fed the
\* value "0", has given no action.
C14_Witness ==
    /\ eng_pc = "inputs"
    /\ eng_resp = InputEvent("GearToggle", "0")
    /\ eng_project.inputs
          = << InputConfig(TRUE, "GearToggle",
                           InputSettings(Some(ButtonAction(Some(GearCommand), None)), None)) >>
    /\ eng_sim = <<>>

\* the contributions of a sequence of rules, in the order of the sequence
RECURSIVE Contributions(_, _)
Contributions(configs, value) ==
    IF configs = <<>> THEN <<>>
    ELSE Contribution(Head(configs), value) \o Contributions(Tail(configs), value)

\* C15: for an input event that several enabled rules match, the calls the
\* orchestrator makes on the connector are those of the actions of all the
\* matching rules, in the order of the rules in the configuration and,
\* within a rule, the button's action before the encoder's.
C15_AllMatchingRulesInOrder ==
    (/\ step.op = "process_inputs"
     /\ step.result # "Panic"
     /\ step.resp.kind = "InputEvent") =>
        step.dispatched =
            Dispatchable(Contributions(
                Matching(Unwrap(mapping_engine).inputs, step.resp.name),
                step.resp.value))

\* C15 witness: the event GearToggle "1" matched the first and the third
\* rule of the configuration; the command of the first rule was executed,
\* then the command of the third rule's button, then the variable of the
\* third rule's encoder was written.
C15_Witness ==
    /\ step.op = "process_inputs"
    /\ step.resp = InputEvent("GearToggle", "1")
    /\ Len(Matching(Unwrap(mapping_engine).inputs, "GearToggle")) = 2
    /\ step.dispatched = << <<"execute_command", "gear_unsafe">>,
                            <<"execute_command", "gear_light">>,
                            <<"write_variable", "enc_dref", Whole(0)>> >>

\* the actions of the configuration that an event value selects in a
\* sequence of rules, as they are written in the configuration
RECURSIVE SelectedActions(_, _)
SelectedActions(configs, value) ==
    IF configs = <<>> THEN <<>>
    ELSE LET s == Head(configs).settings
             b == IF IsSome(s.button) THEN ButtonDirection(Unwrap(s.button), value) ELSE None
             e == IF IsSome(s.encoder) THEN EncoderDirection(Unwrap(s.encoder), value) ELSE None
         IN  b \o e \o SelectedActions(Tail(configs), value)
\* the value a variable write carries: the parsed value, 0 when the value is
\* missing or does not parse
WrittenValue(action) ==
    IF IsSome(action.value) /\ IsSome(ParseF64(Unwrap(action.value)))
    THEN Unwrap(ParseF64(Unwrap(action.value)))
    ELSE Whole(0)
\* the connector calls a sequence of selected actions is to cause
RECURSIVE ExpectedCalls(_)
ExpectedCalls(actions) ==
    IF actions = <<>> THEN <<>>
    ELSE LET a == Head(actions)
         IN  (IF IsSome(a.command)
              THEN << <<"execute_command", Unwrap(a.command)>> >>
              ELSE IF IsSome(a.dataref)
              THEN << <<"write_variable", Unwrap(a.dataref), WrittenValue(a)>> >>
              ELSE <<>>)
                \o ExpectedCalls(Tail(actions))

\* C16: a selected action that carries a command name makes the orchestrator
\* call execute_command with that name, whether or not it carries a variable
\* name; one without a command name and with a variable name makes it call
\* write_variable with that name and the parsed value, 0 when the value is
\* missing or does not parse; one with neither makes it call nothing.
C16_ActionTranslationAndDispatch ==
    (/\ step.op = "process_inputs"
     /\ step.result # "Panic"
     /\ step.resp.kind = "InputEvent") =>
        step.dispatched =
            ExpectedCalls(SelectedActions(
                Matching(Unwrap(mapping_engine).inputs, step.resp.name),
                step.resp.value))

\* C16 witness: the event GearToggle "0" selected a variable write with the
\* value "1", an action with neither name, and a variable write with the
\* value "abc"; gear_dref was written 1, nothing was called for the second,
\* and enc_dref was written 0.
C16_Witness ==
    /\ step.op = "process_inputs"
    /\ step.resp = InputEvent("GearToggle", "0")
    /\ Len(SelectedActions(Matching(Unwrap(mapping_engine).inputs, "GearToggle"), "0")) = 3
    /\ step.dispatched = << <<"write_variable", "gear_dref", Whole(1)>>,
                            <<"write_variable", "enc_dref", Whole(0)>> >>

\* C17: process_inputs returns no simulator action for a response that is
\* not an input event (an identity response, generic data, an unrecognized
\* id), whatever the configuration, nor for an input event whose label is
\* the description of no enabled input rule.
C17_OnlyMatchingInputEventsAct ==
    (/\ eng_pc = "inputs"
     /\ \/ eng_resp.kind # "InputEvent"
        \/ \A i \in 1..Len(eng_project.inputs) :
              ~(eng_project.inputs[i].active
                    /\ eng_project.inputs[i].description = eng_resp.name)) =>
        eng_sim = <<>>

\* C17 witness: an identity response whose name is the description of an
\* enabled rule with an on-press action has given no action.
C17_Witness ==
    /\ eng_pc = "inputs"
    /\ eng_resp = InfoResponse("GearToggle", "Mega", "SN1", "1")
    /\ Len(eng_project.inputs) >= 1
    /\ eng_project.inputs[1]
          = InputConfig(TRUE, "GearToggle",
                        InputSettings(Some(ButtonAction(Some(GearCommand), None)), None))
    /\ eng_sim = <<>>

\* the arguments of a command in their declared order, as text
ArgTexts(cmd) ==
    CASE cmd.kind = "SetName" -> <<cmd.name>>
      [] cmd.kind = "SetPin" -> <<Decimal(cmd.pin), Decimal(cmd.value)>>
      [] cmd.kind = "Set7Segment" -> <<Decimal(cmd.module), Decimal(cmd.index), cmd.value>>
      [] cmd.kind = "SetLCD" -> <<Decimal(cmd.display_id), Decimal(cmd.line), cmd.text>>
      [] cmd.kind = "SetStepper" -> <<Decimal(cmd.motor_id), Decimal(cmd.steps)>>
      [] cmd.kind = "SetRGB" ->
            <<Decimal(cmd.led_id), Decimal(cmd.r), Decimal(cmd.g), Decimal(cmd.b)>>
      [] OTHER -> <<>>
\* the fields of a response, in order
FieldsOf(resp) ==
    CASE resp.kind = "Info" -> <<resp.name, resp.board_type, resp.serial, resp.version>>
      [] resp.kind = "InputEvent" -> <<resp.name, resp.value>>
      [] OTHER -> resp.args
\* the ids Response::parse has a typed variant for
TypedResponseIds == {7, 11}
RECURSIVE Contains(_, _)
Contains(s, ch) ==
    Len(s) > 0 /\ (FirstChar(s) = ch \/ Contains(Tail(s), ch))
\* a text that holds no ',' and ends neither in ';' nor in whitespace
PlainText(s) ==
    /\ ~Contains(s, ",")
    /\ Len(s) > 0 => LastChar(s) \notin (Whitespace \cup {";"})

\* C18 as stated: for a command whose id is also an id that Response::parse
\* has a typed variant for, parsing the serialized command gives that typed
\* response, with fields equal to the arguments of the command.
C18_Original ==
    (pr_pc = "round_trip" /\ Command_id(pr_cmd) \in TypedResponseIds) =>
        /\ IsSome(pr_resp)
        /\ Unwrap(pr_resp).kind \in {"Info", "InputEvent"}
        /\ FieldsOf(Unwrap(pr_resp)) = ArgTexts(pr_cmd)

\* C18 amended: for every command whose arguments, as text, hold no ',' and
\* end neither in ';' nor in whitespace, parsing the serialized command gives
\* Unknown(id, args) with the id of the command and args its arguments in
\* order; so it is for GetInfo, id 7, which gives Unknown(7, []).
C18_RoundTripGivesUnknown ==
    (/\ pr_pc = "round_trip"
     /\ \A k \in 1..Len(ArgTexts(pr_cmd)) : PlainText(ArgTexts(pr_cmd)[k])) =>
        pr_resp = Some(UnknownResponse(Command_id(pr_cmd), ArgTexts(pr_cmd)))

\* C18 witness: GetInfo was serialized to "7;" and that was parsed to
\* Unknown(7, []).
C18_Witness ==
    /\ pr_pc = "round_trip"
    /\ pr_cmd = GetInfo
    /\ pr_wire = "7;"
    /\ pr_resp = Some(UnknownResponse(7, <<>>))

\* the fields of a device line: its content, without the line ending and
\* the whitespace around it, with the trailing ';' trimmed, split on ','
DeviceFields(line) == split(trim(trim_end_matches(trim(line), ";")), ",")

\* C19 as stated: for a line whose first field is a numeric id other than
\* the identity id 7 and the input-event id 11, Response::parse returns
\* Unknown(id, args) with args the remaining fields of the line in order;
\* and a line that cannot be decoded makes poll_events return no event.
C19_Original ==
    /\ (/\ pr_pc = "parsed"
        /\ IsSome(parse_u8(DeviceFields(pr_line)[1]))
        /\ Unwrap(parse_u8(DeviceFields(pr_line)[1])) \notin {7, 11}) =>
          pr_resp = Some(UnknownResponse(Unwrap(parse_u8(DeviceFields(pr_line)[1])),
                                         Tail(DeviceFields(pr_line))))
    /\ (pr_pc = "polled" /\ ~IsSome(Response_parse(pr_line))) => pr_events = <<>>

\* each text of a sequence preceded by a comma
RECURSIVE CommaPrefixed(_)
CommaPrefixed(texts) ==
    IF texts = <<>> THEN "" ELSE "," \o Head(texts) \o CommaPrefixed(Tail(texts))

\* C20: Command::serialize gives the decimal id of the command's kind, then
\* each argument in the declared order of the kind, each preceded by a comma,
\* then one ';' (GetInfo gives "7;", SetName(n) gives "9,n;", SetPin(p, v)
\* gives "3,p,v;"); and commands of different kinds have different ids.
C20_SerializedForm ==
    /\ pr_pc \in {"serialized", "round_trip"} =>
          /\ pr_wire = Decimal(Command_id(pr_cmd)) \o CommaPrefixed(ArgTexts(pr_cmd)) \o ";"
          /\ pr_cmd = GetInfo => pr_wire = "7;"
          /\ pr_cmd = SetName("a") => pr_wire = "9,a;"
          /\ pr_cmd = SetPin(13, 1) => pr_wire = "3,13,1;"
          /\ pr_cmd = SetStepper(2, -120) => pr_wire = "17,2,-120;"
    /\ \A c \in Commands, d \in Commands :
          c.kind # d.kind => Command_id(c) # Command_id(d)

\* C20 witness: SetPin(13, 1) was serialized to "3,13,1;".
C20_Witness ==
    /\ pr_pc = "serialized"
    /\ pr_cmd = SetPin(13, 1)
    /\ pr_wire = "3,13,1;"

\* the frames the last call of the UDP connector put on the wire
XpSent ==
    IF client.kind = "xplane" /\ last.op \in {"subscribe", "write_variable", "execute_command"}
    THEN last.sent ELSE <<>>

\* the size of the buffer each frame kind is built in
FrameSize(tag) ==
    CASE tag = "RREF" -> 413
      [] tag = "DREF" -> 509
      [] tag = "CMND" -> 505

\* C21 as stated: every datagram the UDP connector sends has the fixed
\* length of its frame kind, whatever the length of the name it carries:
\* 413 bytes for subscribe, 509 for write_variable, 505 for execute_command.
C21_Original ==
    \A i \in 1..Len(XpSent) : XpSent[i].bytes = FrameSize(XpSent[i].tag)

\* the bytes of a frame before the name it carries
HeaderSize(tag) ==
    CASE tag = "RREF" -> 13
      [] tag = "DREF" -> 9
      [] tag = "CMND" -> 5

\* C22 as stated: for a name of any length, also one at or above the limit
\* (400 bytes for subscribe, 500 for write_variable and execute_command), a
\* call of the connected UDP connector returns without crashing, and the
\* frame it sends holds the header, the name cut to the limit and a null
\* byte, all within the frame buffer.
C22_Original ==
    (client.kind = "xplane"
        /\ last.op \in {"subscribe", "write_variable", "execute_command"}) =>
        /\ last.result # "Panic"
        /\ \A i \in 1..Len(last.sent) :
              /\ last.sent[i].bytes = HeaderSize(last.sent[i].tag) + last.sent[i].path_len + 1
              /\ last.sent[i].bytes <= FrameSize(last.sent[i].tag)

\* C23: on an HTTP bridge connector that is not connected and on a UDP
\* connector without a socket, write_variable, execute_command and (UDP)
\* subscribe return the not-connected error, send nothing and leave the
\* connector (connected flag, snapshot, subscription table) as it was.
C23_NotConnectedFailsFast ==
    [][(/\ client.kind \in {"xplane", "msfs"}
        /\ ~Connected(client)
        /\ last'.op \in {"subscribe", "write_variable", "execute_command"})
        => /\ last'.result = "NotConnected"
           /\ last'.sent = <<>>
           /\ client' = client]_vars

\* C23 witness: a subscribe has just been refused on a UDP connector that
\* has no socket and holds a subscription of an earlier session.
C23_Witness ==
    /\ client.kind = "xplane"
    /\ ~client.socket
    /\ last.op = "subscribe"
    /\ last.result = "NotConnected"
    /\ client.subscriptions # EmptyMap

\* C24 as stated: the index the subscription table of a connected UDP
\* connector records for a name is left as it is by every subscribe call
\* that follows, also by a repeated subscribe of the same name.
C24_Original ==
    [][(client.kind = "xplane" /\ client.socket /\ last'.op = "subscribe")
        => \A n \in DOMAIN client.subscriptions :
              client'.subscriptions[n] = client.subscriptions[n]]_vars

\* C25 as stated: the subscription table of the UDP connector only grows
\* while the connector stays connected, it is empty whenever the connector
\* has no socket, and the first subscribe of a session started by a later
\* connect is assigned the first index.
C25_Original ==
    /\ [][(client.kind = "xplane" /\ client.socket /\ client'.socket)
            => DOMAIN client.subscriptions \subseteq DOMAIN client'.subscriptions]_vars
    /\ []((client.kind = "xplane" /\ ~client.socket)
            => client.subscriptions = EmptyMap)
    /\ []((client.kind = "xplane" /\ last.op = "subscribe"
             /\ last.result # "NotConnected" /\ last.prev_max = 0)
            => last.index = 1)

\* C26: after a poll of the connected HTTP bridge connector whose response
\* has a success status and a body that decodes, the cached snapshot is
\* exactly the variable map of that response: a variable of the previous
\* snapshot that the response does not hold is gone.
C26_SuccessfulPollReplacesSnapshot ==
    (/\ client.kind = "msfs"
     /\ client.connected
     /\ last.op = "poll"
     /\ last.resp = "success") =>
        /\ client.variables = bridge
        /\ get_all_variables(client) = bridge

\* C26 witness: the snapshot before the poll held gear, the response holds
\* alt only, and gear is gone from the snapshot.
C26_Witness ==
    /\ client.kind = "msfs"
    /\ client.connected
    /\ last.op = "poll"
    /\ last.resp = "success"
    /\ "gear" \in DOMAIN last.before
    /\ DOMAIN client.variables = {"alt"}

\* C27: after a disconnect_sim that returned the orchestrator has no active
\* connector, the connector it removed (if there was one) has had its
\* disconnect called, and one SimDisconnected event, and no other, has been
\* published for the call; while there is no active connector
\* Core::get_all_variables returns the empty snapshot, and only a
\* set_sim_client installs one.
C27_DisconnectSimClears ==
    /\ []((step.op = "disconnect_sim" /\ step.result = "Ok") =>
            /\ sim_client = None
            /\ core_get_all_variables(sim_client) = EmptyMap
            /\ Len(step.disconnected) = (IF IsSome(step.removed) THEN 1 ELSE 0)
            /\ \A i \in 1..Len(step.disconnected) :
                  /\ ~Connected(step.disconnected[i])
                  /\ step.disconnected[i].kind = Unwrap(step.removed).kind
            /\ step.events = <<[kind |-> "SimDisconnected"]>>)
    /\ [](sim_client = None => core_get_all_variables(sim_client) = EmptyMap)
    /\ [][(sim_client = None /\ sim_client' # None)
            => (step'.op = "set_sim_client" /\ step'.result = "Ok")]_vars

\* C27 witness: a disconnect_sim has removed a connected connector whose
\* snapshot was not empty.
C27_Witness ==
    /\ step.op = "disconnect_sim"
    /\ step.result = "Ok"
    /\ IsSome(step.removed)
    /\ Connected(Unwrap(step.removed))
    /\ get_all_variables(Unwrap(step.removed)) # EmptyMap
    /\ sim_client = None

\* the events of a poll of the devices, each tagged with the name of the
\* device that gave it, in the order of the devices
RECURSIVE Tagged(_, _, _)
Tagged(devs, polled, i) ==
    IF i > Len(devs) THEN <<>>
    ELSE [k \in 1..Len(polled[i].events) |-> <<devs[i].name, polled[i].events[k]>>]
            \o Tagged(devs, polled, i + 1)

\* C28: in the poll of a tick a device gives no event when no bytes are
\* available on its serial line and at most one event otherwise, however
\* many lines are pending; the events the poll adds to those of the tick are
\* the events of the devices, each tagged with the name of its device.
C28_AtMostOneEventPerDevice ==
    step.op = "poll_devices" =>
        /\ \A i \in 1..Len(devices) :
              /\ Len(step.polled[i].events) <= 1
              /\ ~step.polled[i].available => step.polled[i].events = <<>>
        /\ LET new == Tagged(devices, step.polled, 1)
           IN  /\ Len(new) <= Len(devices)
               /\ Len(hardware_responses) >= Len(new)
               /\ SubSeq(hardware_responses, Len(hardware_responses) - Len(new) + 1,
                         Len(hardware_responses)) = new

\* C28 witness: a device with two lines pending gave one event, and the last
\* event of the tick is this event under the name of the device.
C28_Witness ==
    /\ step.op = "poll_devices"
    /\ Len(devices) = 1
    /\ step.polled[1].lines = 2
    /\ Len(step.polled[1].events) = 1
    /\ hardware_responses # <<>>
    /\ hardware_responses[Len(hardware_responses)]
          = <<devices[1].name, step.polled[1].events[1]>>

\* the hardware actions whose serial is that of a tracked device
RECURSIVE Addressed(_, _)
Addressed(devs, actions) ==
    IF actions = <<>> THEN <<>>
    ELSE (IF \E k \in 1..Len(devs) : devs[k].serial = Head(actions).serial
          THEN <<Head(actions)>> ELSE <<>>)
            \o Addressed(devs, Tail(actions))

\* C29: every hardware action of a tick that is sent is sent to a tracked
\* device whose serial is the serial of the action; the actions sent are, in
\* their order, all the actions of the tick whose serial is that of a tracked
\* device, so an action for an unknown serial is sent to no device and the
\* actions behind it are still applied.
C29_ActionsGoToTheirDevice ==
    step.op = "apply_hardware_outputs" =>
        /\ \A j \in 1..Len(step.applied) :
              /\ step.applied[j].device \in 1..Len(devices)
              /\ devices[step.applied[j].device].serial = step.applied[j].action.serial
        /\ [j \in 1..Len(step.applied) |-> step.applied[j].action]
              = Addressed(devices, step.planned)

\* C29 witness: of three actions the second named a serial that no tracked
\* device has; the first and the third were sent to the device they name.
C29_Witness ==
    /\ step.op = "apply_hardware_outputs"
    /\ Len(step.planned) = 3
    /\ \A k \in 1..Len(devices) : devices[k].serial # step.planned[2].serial
    /\ Len(step.applied) = 2
    /\ step.applied[1].action = step.planned[1]
    /\ step.applied[2].action = step.planned[3]

\* C30 as stated: whatever scan_devices calls are made, the device set never
\* holds two entries for the same physical device: no two tracked devices
\* were opened on the same port, and none share a serial identity.
C30_Original ==
    \A i, j \in 1..Len(devices) :
        i # j => /\ devices[i].port # devices[j].port
                 /\ devices[i].serial # devices[j].serial

\* the fields of the line a board answered with, when a line was read
AnsweredFields ==
    LET line == read_line(pr_line)
    IN  IF IsSome(line) THEN split(trim(trim_end_matches(Unwrap(line), ";")), ",") ELSE <<>>
\* the line read back is an identity response: id 7 and at least four fields
IdentityAnswered ==
    /\ Len(AnsweredFields) >= 5
    /\ parse_u8(AnsweredFields[1]) = Some(7)

\* C31: update_info succeeds only when the line read back is an identity
\* response (id 7 and at least four fields); when it fails the identity
\* fields of the device are as before; MobiFlightDevice::new gives no device
\* when the identity query fails, and scan_devices then adds nothing to the
\* device set and publishes nothing.
C31_IdentityQueryFails ==
    /\ pr_pc = "identified" =>
          LET out == Unwrap(pr_dev)
          IN  /\ ~IdentityAnswered => out.result = "Err"
              /\ (out.io_ok /\ IdentityAnswered) => out.result = "Ok"
              /\ out.result = "Err" => out.dev = ProtoDevice
              /\ out.result = "Ok" =>
                    out.dev = Device(ProtoDevice.port, AnsweredFields[2], AnsweredFields[3],
                                     AnsweredFields[4], AnsweredFields[5])
    /\ pr_pc = "opened" =>
          LET out == Unwrap(pr_dev)
              scanned == scan_devices(<<>>, TRUE, [p \in {"COM1"} |-> out.opened])
          IN  /\ ~IdentityAnswered => out.opened = None
              /\ ~IdentityAnswered => (scanned.devices = <<>> /\ scanned.events = <<>>)
              /\ IsSome(out.opened) =>
                    /\ IdentityAnswered
                    /\ Unwrap(out.opened).serial = AnsweredFields[4]

\* C31 witness: the board answered with the identity id and two fields; the
\* query failed and the device still holds the identity it had.
C31_Witness ==
    /\ pr_pc = "identified"
    /\ pr_line = "7,a,a;\r\n"
    /\ Unwrap(pr_dev).io_ok
    /\ Unwrap(pr_dev).result = "Err"
    /\ Unwrap(pr_dev).dev = ProtoDevice
    /\ ProtoDevice.serial = "SN1"

\* C32: in every state where the loop is sleeping it holds none of the four
\* locks (device set, active connector, mapping engine, injected queue), and
\* none of them is poisoned, so a caller can take any of them.
C32_NoLockHeldInSleep ==
    pc = "sleep" =>
        /\ \A l \in DOMAIN locks : locks[l] # "run"
        /\ \A l \in DOMAIN locks : CanLock(l) /\ ~Poisoned(l)

\* C32 witness: the loop sleeps at the end of a tick that held the connector
\* and the mapping engine locks (it produced hardware actions).
C32_Witness ==
    /\ pc = "sleep"
    /\ step.op = "apply_hardware_outputs"
    /\ step.planned # <<>>
    /\ locks = AllFree

\* the calls and steps that publish events
Publishes ==
    /\ step.op \in {"disconnect_sim", "scan_devices", "process_inputs"}
    /\ "events" \in DOMAIN step
    /\ step.events # <<>>

\* C33: a call or a step of the tick that publishes events returns whether
\* the receiver of the channel is held or has been dropped: the channel takes
\* the events in the first case and they are discarded in the second;
\* disconnect_sim and scan_devices return ok, and the tick goes on with its
\* next event unless a dispatched connector call panicked.
C33_BroadcastNeverFails ==
    Publishes =>
        /\ step.delivered = (IF event_rx = "open" THEN step.events ELSE <<>>)
        /\ step.op \in {"disconnect_sim", "scan_devices"} => step.result = "Ok"
        /\ step.op = "process_inputs" =>
              /\ step.result = "Panic" => step.dispatched # <<>>
              /\ step.result # "Panic" => pc = "inputs"

\* C33 witness: the receiver has been dropped; the tick published a
\* VariableChanged event for an input event, which was discarded, and went
\* on to dispatch the actions of the event.
C33_Witness ==
    /\ event_rx = "dropped"
    /\ step.op = "process_inputs"
    /\ step.events # <<>>
    /\ step.delivered = <<>>
    /\ step.result = "Ok"
    /\ step.dispatched # <<>>
    /\ pc = "inputs"

\* the names an action of a rule can make the orchestrator call with
ActionNames(action) ==
    IF IsSome(action)
    THEN { Unwrap(n) : n \in { m \in {Unwrap(action).command, Unwrap(action).dataref} :
                                IsSome(m) } }
    ELSE {}
\* the command and variable names of the input rules of a configuration
InputRuleNames(project) ==
    UNION { (IF IsSome(project.inputs[i].settings.button)
             THEN ActionNames(Unwrap(project.inputs[i].settings.button).on_press)
                    \cup ActionNames(Unwrap(project.inputs[i].settings.button).on_release)
             ELSE {})
            \cup
            (IF IsSome(project.inputs[i].settings.encoder)
             THEN ActionNames(Unwrap(project.inputs[i].settings.encoder).on_left)
                    \cup ActionNames(Unwrap(project.inputs[i].settings.encoder).on_right)
             ELSE {}) : i \in 1..Len(project.inputs) }
\* the display targets (type, serial) of the output rules of a configuration
OutputRuleTargets(project) ==
    { <<Unwrap(project.outputs[i].settings.display).display_type,
        Unwrap(project.outputs[i].settings.display).serial>> :
          i \in { j \in 1..Len(project.outputs) :
                    IsSome(project.outputs[j].settings.display) } }
\* the display type an action for a device is made for
ActionDisplayType(action) ==
    CASE action.kind = "SetPin" -> "Pin"
      [] action.kind = "Set7Segment" -> "7Segment"
      [] action.kind = "SetLCD" -> "LCD"
      [] OTHER -> "none"

\* C34: a load_config that returns ok leaves the rules of its document, and
\* only those, as the configuration; one whose document does not parse
\* returns the error and leaves the configuration (or none) as it was; the
\* configuration changes in no other way, and the actions a step of the tick
\* produces come from the rules of the configuration in place.
C34_LoadConfigReplaces ==
    /\ [][step'.op = "load_config" =>
            LET project == MobiFlightProject_load(step'.xml_content)
            IN  /\ step'.result = "Ok" => (IsSome(project) /\ mapping_engine' = project)
                /\ step'.result = "Err" => (project = None /\ mapping_engine' = mapping_engine)
                /\ project = None => step'.result = "Err"]_vars
    /\ [][mapping_engine' # mapping_engine =>
            (step'.op = "load_config" /\ step'.result = "Ok")]_vars
    /\ [](step.op = "process_inputs" =>
            \A i \in 1..Len(step.dispatched) :
                step.dispatched[i][2] \in InputRuleNames(Unwrap(mapping_engine)))
    /\ [](step.op = "process_outputs" =>
            \A i \in 1..Len(hardware_actions) :
                <<ActionDisplayType(hardware_actions[i]), hardware_actions[i].serial>>
                    \in OutputRuleTargets(Unwrap(mapping_engine)))

\* C34 witness: the configuration of the second document is in place and a
\* tick dispatched the command of its rule for GearToggle, and none of the
\* commands the panel configuration has for that event.
C34_Witness ==
    /\ mapping_engine = Some(LongPathProject)
    /\ step.op = "process_inputs"
    /\ step.resp.kind = "InputEvent"
    /\ step.resp.name = "GearToggle"
    /\ Len(step.dispatched) = 1
    /\ step.dispatched[1][2] = "LONG500"
    /\ "gear_unsafe" \in InputRuleNames(PanelProject)

\* the records that the tagged datagrams of a queue carry, whole, from
\* offset 5 on, in arrival order
RECURSIVE Carried(_)
Carried(queue) ==
    IF queue = <<>> THEN <<>>
    ELSE LET d == Head(queue)
         IN  (IF d.len >= 5 /\ d.tag = "RREF"
              THEN SubSeq(d.recs, 1, (d.len - 5) \div 8) ELSE <<>>)
             \o Carried(Tail(queue))
\* the indices of the records a queue carries
CarriedIndices(queue) == UNION { Indices(recs) : recs \in {Carried(queue)} }
\* the value of the last record a queue carries for the index
LastValue(queue, index) ==
    LET recs == SelectSeq(Carried(queue), LAMBDA r : r[1] = index)
    IN  recs[Len(recs)][2]
\* name n has the same entry, or none, in both caches
SameEntry(before, after, n) ==
    /\ (n \in DOMAIN before) = (n \in DOMAIN after)
    /\ n \in DOMAIN before => after[n] = before[n]

\* C35 as stated: a poll of a connected UDP connector returns ok and leaves
\* no datagram queued; of its datagrams, those of at least 5 bytes that
\* start with RREF count, and of each every record that lies whole within
\* the datagram, from offset 5 on, whatever the length of the datagram.  For
\* every index these records carry, the one name that find returns for the
\* index ends with the value of the last record for it, and every other
\* entry of the snapshot is as it was.
C35_Original ==
    [][(client.kind = "xplane" /\ client.socket /\ last'.op = "poll")
        => /\ last'.result = "Ok"
           /\ inbox' = <<>>
           /\ client'.subscriptions = client.subscriptions
           /\ \A index \in CarriedIndices(inbox) :
                 LET names == names_of_index(client.subscriptions, index)
                 IN  names # {} =>
                        \E n \in names :
                           /\ n \in DOMAIN client'.cache
                           /\ client'.cache[n] = LastValue(inbox, index)
                           /\ \A m \in names \ {n} :
                                 SameEntry(client.cache, client'.cache, m)
           /\ \A n \in (DOMAIN client.cache) \cup (DOMAIN client'.cache) :
                 (n \notin DOMAIN client.subscriptions
                    \/ client.subscriptions[n] \notin CarriedIndices(inbox))
                 => SameEntry(client.cache, client'.cache, n)]_vars

\* C36: the events a tick has collected when it finds no connector, or a
\* connector and no configuration, are dropped with the tick: the step
\* publishes nothing, calls nothing on a connector, puts nothing back in the
\* injected queue and goes on to apply_hardware_outputs with no action; no
\* collected event outlives the pass of its tick through
\* process_simulation_sync.
C36_EventsOfIdleTickDiscarded ==
    /\ [][step'.op \in {"no_client", "no_engine"} =>
            /\ step'.discarded = hardware_responses
            /\ hardware_responses' = <<>>
            /\ hardware_actions' = <<>>
            /\ injected_responses' = injected_responses
            /\ sim_client' = sim_client
            /\ devices' = devices
            /\ DOMAIN step' = {"op", "result", "discarded"}
            /\ pc' = "apply"]_vars
    /\ [](pc \in {"apply", "sleep", "collect"} => hardware_responses = <<>>)

\* C36 witness: a tick with a connector and no configuration has dropped an
\* injected event and an event of a device.
C36_Witness ==
    /\ step.op = "no_engine"
    /\ IsSome(sim_client)
    /\ mapping_engine = None
    /\ \E i, j \in 1..Len(step.discarded) :
          /\ step.discarded[i] \in InjectedEvents
          /\ step.discarded[j] \notin InjectedEvents
          /\ step.discarded[j][2].kind = "InputEvent"
    /\ hardware_responses = <<>>

\* a thread is blocked in `.lock()`: the mutex it asks for is held
Waiting(p) ==
    /\ Active(p)
    /\ Instr(p).do = "lock"
    /\ th_owner[Instr(p).lock] # "free"

\* the chain of holders that starts at p ends, within n steps, at a thread
\* that does not wait
RECURSIVE CanProceed(_, _)
CanProceed(p, n) ==
    IF ~Waiting(p) THEN TRUE
    ELSE IF n = 0 THEN FALSE
    ELSE CanProceed(th_owner[Instr(p).lock], n - 1)

\* C37: there is no circle of threads each of which waits for a lock the
\* next one holds: from every waiting thread the chain of lock holders ends
\* at a thread that does not wait, and no thread waits for a lock that a
\* thread waiting for one of its own locks holds; a lock is held only by a
\* thread that is in an operation; the loop asks for the mapping-engine lock
\* while it holds the connector lock, and no thread asks for the connector
\* lock while it holds the mapping-engine lock.
C37_NoDeadlock ==
    /\ \A p \in Parties : CanProceed(p, Cardinality(Parties))
    /\ \A p, q \in Parties :
          ~(/\ Waiting(p) /\ th_owner[Instr(p).lock] = q
            /\ Waiting(q) /\ th_owner[Instr(q).lock] = p)
    /\ \A l \in LockNames : th_owner[l] # "free" => Active(th_owner[l])
    /\ \A p \in Parties :
          (Active(p) /\ Instr(p).do = "lock") =>
             /\ Instr(p).lock = "sim_client" => th_owner["mapping_engine"] # p
             /\ (p = "run" /\ Instr(p).lock = "mapping_engine")
                    => th_owner["sim_client"] = "run"

\* C37 witness: the loop holds the connector lock and waits for the
\* mapping-engine lock, which a load_config holds, while a disconnect_sim
\* waits for the connector lock.
C37_Witness ==
    /\ th_owner["sim_client"] = "run"
    /\ Waiting("run")
    /\ Instr("run").lock = "mapping_engine"
    /\ th_at[th_owner["mapping_engine"]].op = "load_config"
    /\ \E c \in Callers :
          /\ th_at[c].op = "disconnect_sim"
          /\ Waiting(c)

\* the numbers of the events of caller c in a sequence, in its order
RECURSIVE NumbersOf(_, _)
NumbersOf(events, c) ==
    IF events = <<>> THEN <<>>
    ELSE (IF Head(events)[1] = c THEN <<Head(events)[2]>> ELSE <<>>)
            \o NumbersOf(Tail(events), c)
\* the numbers from a + 1 to a + Len(numbers)
Consecutive(numbers, a) == \A i \in 1..Len(numbers) : numbers[i] = a + i
\* a step of the loop
RunTakesStep == ThLock("run") \/ RunStep
\* C38: an event is in the injected queue from the return of its
\* inject_hardware_response until one pass of the loop takes it, with the
\* whole queue, and it is never in the queue again: the events of a caller
\* that have been taken are its first ones, those in the queue are its next
\* ones in the order of the calls, and only the event of a call that has not
\* returned is in neither.  The queue changes only by one event being added
\* at its end or by the loop taking all of it.  While the loop runs, that
\* is, as long as it takes a step again and again (it has not panicked and
\* is not kept waiting for a mutex for ever), a queue that holds events is
\* eventually taken.
C38_InjectedEventsTakenOnce ==
    /\ [](\A c \in Callers :
             /\ th_seen[c] <= th_count[c]
             /\ Consecutive(NumbersOf(th_queue, c), th_seen[c])
             /\ Len(NumbersOf(th_queue, c)) >=
                   th_count[c] - th_seen[c]
                     - (IF th_at[c].op = "inject_hardware_response" THEN 1 ELSE 0)
             /\ \A i \in 1..Len(th_local) :
                   th_local[i][1] = c => th_local[i][2] <= th_seen[c])
    /\ [][th_local' \notin {th_local, <<>>} =>
            /\ th_local' = th_queue
            /\ th_queue' = <<>>
            /\ th_local = <<>>]_vars
    /\ [][th_queue' # th_queue =>
            \/ \E c \in Callers : th_queue' = Append(th_queue, <<c, th_count[c]>>)
            \/ th_queue' = <<>> /\ th_local' = th_queue]_vars
    /\ ([]<><<RunTakesStep>>_vars) => ((th_queue # <<>>) ~> (th_queue = <<>>))

\* C38 witness: the loop has taken three events in one pass, the two of one
\* caller in the order of its calls with the event of the other caller
\* between them, and a later event waits in the queue.
C38_Witness ==
    /\ Len(th_local) = 3
    /\ \E c, d \in Callers :
          /\ c # d
          /\ th_local = << <<c, 1>>, <<d, 1>>, <<c, 2>> >>
          /\ th_queue = << <<d, 2>> >>
    /\ th_at["run"].pc > 2

\* the steps of the loop that call the connector
ConnectorSteps == {"poll", "process_outputs", "process_inputs"}

\* C39: from the poll of a tick to the last action it dispatches the tick
\* holds the connector lock and the slot holds a connector of the same
\* variant, changed by the calls of the tick only; set_sim_client and
\* disconnect_sim take effect when the tick does not hold the lock, after a
\* disconnect_sim has returned the slot is empty, and a step of the loop
\* calls a connector only if it is the one in the slot.
C39_ConnectorChangesAtomic ==
    /\ [](pc \in {"outputs", "inputs"} =>
            /\ locks.sim_client = "run"
            /\ IsSome(sim_client))
    /\ [][(locks.sim_client = "run" /\ locks'.sim_client = "run") =>
            /\ step'.op \in {"process_outputs", "process_inputs"}
                  \/ (sim_client' = sim_client /\ pc' = pc)
            /\ IsSome(sim_client')
            /\ Unwrap(sim_client').kind = Unwrap(sim_client).kind]_vars
    /\ [][(step'.op \in {"set_sim_client", "disconnect_sim"} /\ sim_client' # sim_client) =>
            /\ locks.sim_client = Free
            /\ pc \notin {"outputs", "inputs"}]_vars
    /\ []((step.op = "disconnect_sim" /\ step.result = "Ok") => sim_client = None)
    /\ [][(step'.op \in ConnectorSteps /\ pc' # pc) =>
            /\ IsSome(sim_client)
            /\ IsSome(sim_client')
            /\ locks'.sim_client \in {"run", "poisoned"}]_vars

\* C39 witness: a tick has polled a connector and made hardware actions from
\* its snapshot; disconnect_sim was called before the tick applied them and
\* has removed that connector.
C39_Witness ==
    /\ step.op = "disconnect_sim"
    /\ step.result = "Ok"
    /\ IsSome(step.removed)
    /\ pc = "apply"
    /\ hardware_actions # <<>>
    /\ sim_client = None

\* C40: while a tick processes its input events it holds the mapping-engine
\* lock and the configuration is the one process_outputs ran on: the
\* configuration does not change while the lock is held, a load_config
\* changes it only when the tick does not hold the lock, which is before
\* process_outputs or after the last process_inputs, and the hardware
\* actions the tick carries are those of output rules of the configuration
\* its input events are processed with.
C40_OneConfigurationPerTick ==
    /\ [](pc = "inputs" =>
            /\ locks.mapping_engine = "run"
            /\ IsSome(mapping_engine)
            /\ \A i \in 1..Len(hardware_actions) :
                  <<ActionDisplayType(hardware_actions[i]), hardware_actions[i].serial>>
                      \in OutputRuleTargets(Unwrap(mapping_engine)))
    /\ [][(locks.mapping_engine = "run" /\ locks'.mapping_engine = "run")
            => mapping_engine' = mapping_engine]_vars
    /\ [][(pc = "inputs" /\ pc' = "inputs") => mapping_engine' = mapping_engine]_vars
    /\ [][mapping_engine' # mapping_engine =>
            /\ locks.mapping_engine = Free
            /\ pc # "inputs"]_vars

\* C40 witness: a load_config has replaced the configuration after the poll
\* of a tick and before its process_outputs; the tick has events to process.
C40_Witness ==
    /\ step.op = "load_config"
    /\ step.result = "Ok"
    /\ step.xml_content = "panel.mcc"
    /\ mapping_engine = Some(PanelProject)
    /\ pc = "outputs"
    /\ locks.sim_client = "run"
    /\ hardware_responses # <<>>

=============================================================================
